---- MODULE Spec2Model ----
(***************************************************************************)
(* Verification model of teamarr: keyword ordering / keyword enforcement   *)
(* of managed channels, channel numbering, the provider rate limiter, the  *)
(* sports-data service and provider registry, EPG generation, the filler   *)
(* generator, the ESPN client's retry loop and shared HTTP client, the     *)
(* externally occupied channel numbers, template variable resolution, the  *)
(* selection of a description template, the bulk import of teams, the logo *)
(* manager, the Gold Zone stream date check, the initialisation of the     *)
(* provider registry, the Dispatcharr token manager, the team-schedule     *)
(* reads, the wait for an EPG refresh and the cache refresh route.         *)
(*                                                                         *)
(* Each subsystem has its own specification (SpecOrdering, SpecKeyword,    *)
(* SpecNumbering, SpecTimeline, SpecRateLimiter, SpecService, SpecEpg,     *)
(* SpecRequest, SpecExternalOccupied, SpecResolve, SpecDescription,        *)
(* SpecRegistry, SpecImport, SpecLogo, SpecGoldZone, SpecChunks,           *)
(* SpecLastContext, SpecPool, SpecRegistryInit, SpecTokens, SpecSchedule,  *)
(* SpecRefreshWait, SpecRefresh).  The variables of the other subsystems   *)
(* are parked at a fixed value while one subsystem runs.  SpecEnforcers    *)
(* runs the ordering and the keyword enforcer together.  SpecRefresh is    *)
(* the one specification with fairness: its property is a liveness         *)
(* property.                                                               *)
(***************************************************************************)
EXTENDS Integers, Sequences, FiniteSets, TLC

VARIABLES
    \* ---- keyword ordering enforcer (consumers/enforcement/ordering.py)
    channel_number,      \* managed_channels.channel_number, per channel id
    deleted_at,          \* managed_channels.deleted_at IS NOT NULL, per channel id
    dispatcharr_number,  \* channel_number held by the downstream manager
    channel_manager,     \* TRUE when a ChannelManager was injected
    channel_history,     \* rows written by log_channel_history
    ord_pc,              \* position of enforce()
    pairs,               \* rows of _get_channels_needing_reorder not yet processed
    pair,                \* the pair being processed
    reordered,           \* len(result.reordered)
    ord_errors,          \* len(result.errors)
    ord_runs,            \* number of completed enforce() calls
    ord_prev_ok,         \* the previous enforce() returned without errors
    ord_at_start,        \* numbers (persistence, downstream) when enforce() began
    \* ---- keyword enforcer (consumers/enforcement/keywords.py)
    exception_keywords,  \* configured keyword -> behavior
    kw_active,           \* channels of get_all_managed_channels(include_deleted=False)
    stream_token,        \* per stream: the keyword its stream_name contains, 0 for none
    kw_rows,             \* managed_channel_streams rows with removed_at IS NULL
    d_streams,           \* downstream manager: ordered stream ids per channel
    kw_manager,          \* TRUE when a ChannelManager was injected
    kw_history,          \* rows written by log_channel_history
    kw_pc,               \* position of enforce()
    kw_todo,             \* channels the sweep has not visited yet
    kw_channel,          \* the channel being swept
    kw_streams,          \* its streams not yet checked, by priority
    kw_move,             \* the move being synced to the downstream manager
    streams_moved,       \* len(result.streams_moved)
    streams_correct,     \* result.streams_correct
    kw_errors,           \* len(result.errors)
    kw_runs,             \* number of completed enforce() calls
    kw_at_start,         \* rows when enforce() began
    kw_moves,            \* moves made by this enforce()
    kw_failed_moves,     \* moves whose downstream sync raised, in any run so far
    kw_run_failed,       \* a downstream call raised during this enforce()
    \* ---- channel numbering (database/channel_numbers, consumers/lifecycle)
    managed_number,      \* managed_channels.channel_number per channel id, 0 before creation
    managed_deleted,     \* managed_channels.deleted_at IS NOT NULL, per channel id
    numbering_mode,      \* settings.channel_numbering_mode
    dispatcharr_numbers, \* channel numbers in the downstream manager's channel cache
    external_occupied,   \* the set computed at the start of the generation run
    last_assignment,     \* the numbers the last assignment returned, and what was taken then
    \* ---- per-team timeline (epg/orchestrator.py, _process_team_schedule)
    team,                \* filler switches and game duration of the team
    midnight_mode,       \* settings.midnight_crossover_mode
    days_ahead,          \* days in the EPG window
    epg_start_datetime,  \* start of the EPG, in time units from midnight of the first day
    events,              \* start times of the team's events after scoreboard discovery
    processed_events,    \* programmes of the games
    filler_entries,      \* programmes of the filler generated so far
    current_date,        \* the day the filler loop is at
    combined_events,     \* the team's output sequence
    tl_pc,               \* position of _process_team_schedule
    \* ---- RateLimiter (providers/espn/client.py)
    now,                 \* time.monotonic(), in ticks of 1/rate seconds
    tokens,              \* RateLimiter._tokens
    last_update,         \* RateLimiter._last_update
    rl_pc,               \* per caller: outside acquire(), or in time.sleep
    wake_at,             \* per sleeping caller: when its sleep ends
    returned,            \* per tick: how many acquire() calls returned in it
    \* ---- ProviderRegistry and SportsDataService
    reg_providers,       \* ProviderRegistry._providers, in insertion order
    svc_providers,       \* SportsDataService._providers
    supports,            \* per provider: supports_league(league)
    svc_cache,           \* the cache entry of the read's key
    cached,              \* what self._cache.get(cache_key) returned to the read
    user_keywords,       \* what the last _load_user_keywords returned, and whether the database failed
    svc_pc,              \* position of get_events
    svc_idx,             \* position of the loop over self._providers
    consulted,           \* providers asked by this read, with what they returned
    svc_result,          \* what the read returned
    svc_reads,           \* number of reads started
    \* ---- EPGOrchestrator.generate_epg
    teams_list,          \* the active teams with templates
    epg_pc,              \* position of generate_epg
    scoreboard_cache,    \* EPGOrchestrator._scoreboard_cache, 0 for an absent key
    scoreboard_lock,     \* holder of _scoreboard_cache_lock, 0 when free
    team_pc,             \* per team: position of process_single_team
    team_scoreboard,     \* per team: what _get_events_cached returned to it
    futures,             \* per team: outcome of its future once it is done
    results,             \* results collected from as_completed, in order
    all_events,          \* team id -> programmes
    fetches,             \* per cache key: calls of service.get_events in this cycle
    epg_cycles,          \* number of generate_epg calls started
    \* ---- ESPNClient._request (providers/espn/client.py)
    retry_count,         \* ESPNClient._retry_count
    retry_delay,         \* ESPNClient._retry_delay, in seconds
    rq_client,           \* ESPNClient._client: "none" or "open"
    rq_pc,               \* position of _request
    rq_attempt,          \* the loop variable attempt
    rq_log,              \* attempts and sleeps of this _request, in order
    rq_result,           \* what _request returned
    rq_requests,         \* number of _request calls started
    \* ---- compute_external_occupied (consumers/lifecycle/__init__.py)
    eo_manager,          \* TRUE when a channel_manager was passed
    eo_channels,         \* channel_number of each channel of channel_manager.get_channels()
    eo_rows,             \* managed_channels rows: channel_number and deleted_at IS NOT NULL
    eo_pc,               \* position of compute_external_occupied
    eo_result,           \* the set compute_external_occupied returned
    \* ---- TemplateEngine.resolve (epg/template_engine.py)
    rs_context,          \* context: whether game, next_game and last_game carry a game
    rs_template,         \* the template: text parts and {variable.suffix} placeholders
    all_variables,       \* the dictionary _build_variable_dict returned
    rs_replacements,     \* what replace_variable returned for each part
    rs_result,           \* the string resolve returned, as a sequence of pieces
    rs_pc,               \* position of resolve
    \* ---- TemplateEngine.select_description (epg/template_engine.py)
    description_options, \* the argument: its kind (list, JSON text, malformed JSON, other) and the options
    ds_context,          \* context: team_stats.streak_count and whether the team is home
    priority_groups,     \* matched templates by priority when select_description ended
    ds_result,           \* the template select_description returned and the priority it came from
    ds_pc,               \* position of select_description
    \* ---- ProviderRegistry.get_for_league (providers/registry.py)
    league_lookup,       \* calls of get_for_league so far and what the last one returned, 0 for None
    \* ---- Import
    im_teams,            \* the teams table, in rowid order
    team_cache,          \* the team_cache table: (provider_team_id, sport, league) rows
    im_importer,         \* which bulk importer handles the requests: "service" or "route"
    im_runs,             \* imports done so far
    im_request,          \* the team list of the last import
    im_result,           \* the ImportResult of the last import
    im_repeat,           \* the last import was given the same team list as the one before it
    \* ---- Logo
    lg_logos,            \* the logos held by the downstream manager: [id, url]
    lg_unique,           \* whether the downstream manager refuses a second logo for a URL
    lg_cache,            \* LogoManager._caches[base_url]: url -> logo, shared by every instance
    lg_pc,               \* caller -> "idle" or "posting" (between find_by_url and the POST's response)
    lg_url,              \* caller -> the url of its upload_or_find call
    lg_calls,            \* upload_or_find calls started so far
    lg_returned,         \* what the finished calls returned: [url, id (0 for None), answered]
    lg_created,          \* the logos created by the POSTs of upload
    \* ---- GoldZone
    gz_now,              \* datetime.now(UTC) of the check: [year, doy (day of the year), hour]
    gz_name,             \* the stream name, as the tokens it carries: a "Day N" number and a calendar date
    gz_pc,               \* "start", then "checked"
    gz_result,           \* what _stream_date_check returned: [ok, date]
    \* ---- filler chunks (epg/orchestrator.py, _create_filler_chunks)
    fc_tz,               \* UTC offset, in hours, of the user time zone (epg_timezone)
    fc_start_dt,         \* start_dt of _create_filler_chunks: instant and tzinfo offset
    fc_end_dt,           \* end_dt of _create_filler_chunks
    fc_current_start,    \* current_start of the chunk loop
    fc_time_blocks,      \* time_blocks_list
    fc_pc,               \* position of _create_filler_chunks
    \* ---- LAST context (epg/orchestrator.py, _process_event)
    lc_now,              \* datetime.now(tz=utc) when the programmes are built
    extended_events,     \* the team's extended schedule: raw events with start and status
    lc_todo,             \* events of the schedule not yet given to _process_event
    last_context,        \* per processed event, the event chosen for its LAST context (none or one)
    \* ---- ESPNClient connection pool (providers/espn/client.py, _get_client / _reset_client)
    cp_client,           \* self._client: 0 for None, else the identity of an httpx.Client
    cp_closed,           \* the clients that have been closed
    cp_created,          \* number of clients created so far
    cp_pc,               \* per thread, its position in _request
    cp_local,            \* per thread, the value _get_client returned (client in _request)
    cp_attempt,          \* per thread, attempt of the retry loop
    cp_ssl_client,       \* per thread, the client whose request failed with a TLS error in the previous attempt, else 0
    \* ---- registry initialisation (services/sports_data.py, create_default_service)
    ri_initialized,      \* ProviderRegistry._initialized
    ri_source,           \* _league_mapping_source: 0 for None, else the caller whose service was injected
    ri_instance,         \* ProviderConfig._instance of the registered provider: NoInstance or an instance
    ri_created,          \* number of provider instances created so far
    ri_initialize_calls, \* number of calls of ProviderRegistry.initialize
    ri_pc,               \* per caller, its position in create_default_service
    ri_service,          \* per caller, the provider instance its SportsDataService holds
    \* ---- TokenManager: sessions shared by instances
    tm_session_key,      \* per TokenManager instance, its _session_key
    tm_sessions,         \* TokenManager._sessions: per session key, the session dict
    tm_lock,             \* per TokenManager instance, the thread holding self._lock (0: free)
    tm_instance,         \* per thread, the TokenManager instance whose get_token it calls
    tm_pc,               \* per thread, its position in get_token
    tm_result,           \* per thread, what its last get_token returned (0: None)
    tm_calls,            \* per thread, the number of get_token calls it has started
    tm_issued,           \* number of access tokens the server has issued
    tm_clock,            \* datetime.now(), in minutes
    \* ---- SportsDataService.get_team_schedule
    ts_season,           \* the days (counted from today) on which the team has a game this season
    ts_supports,         \* per provider, supports_league(league)
    ts_cache,            \* the cache entry of make_cache_key("schedule", league, team_id)
    ts_days_ahead,       \* days_ahead of the last get_team_schedule read
    ts_populated_by,     \* days_ahead of the read whose result the cache entry holds
    ts_result,           \* the days of the events the last read returned
    ts_pc,               \* "idle", or "hit" / "fetched" after a read served from the cache / the providers
    ts_reads,            \* number of reads started
    \* ---- EPGManager.wait_for_refresh
    wr_status,           \* Dispatcharr: status of the EPG source
    wr_updated_at,       \* Dispatcharr: updated_at of the EPG source, as a version number
    wr_message,          \* Dispatcharr: last_message of the EPG source
    wr_job,              \* Dispatcharr: the import task of the source ("none", "queued", "running")
    wr_pc,               \* position of wait_for_refresh
    wr_before_updated,   \* before_updated
    wr_polls,            \* number of poll iterations done
    wr_last,             \* the source as the last successful poll saw it (NoValue: none yet)
    wr_result,           \* the RefreshResult returned (NoValue: none yet)
    wr_completed,        \* whether the import task started by this call's trigger has completed
    \* ---- trigger_refresh: cache refresh with SSE progress
    rf_status,           \* the status kept by teamarr.api.cache_refresh_status
    rf_gen,              \* per accepted trigger, the position of its generate()
    rf_thread,           \* per accepted trigger, the position of its run_refresh thread
    rf_queue,            \* per accepted trigger, its progress_queue
    rf_last_event,       \* per accepted trigger, the last event its stream yielded ("" for none)
    rf_progress,         \* per accepted trigger, the number of progress callbacks made
    rf_triggers,         \* number of triggers accepted
    rf_errors            \* number of triggers answered with a single error event

ordVars == <<channel_number, deleted_at, dispatcharr_number, channel_manager,
             channel_history, ord_pc, pairs, pair, reordered, ord_errors,
             ord_runs, ord_prev_ok, ord_at_start>>

kwVars == <<exception_keywords, kw_active, stream_token, kw_rows, d_streams,
            kw_manager, kw_history, kw_pc, kw_todo, kw_channel, kw_streams,
            kw_move, streams_moved, streams_correct, kw_errors, kw_runs,
            kw_at_start, kw_moves, kw_failed_moves, kw_run_failed>>

numVars == <<managed_number, managed_deleted, numbering_mode,
             dispatcharr_numbers, external_occupied, last_assignment>>

tlVars == <<team, midnight_mode, days_ahead, epg_start_datetime, events,
            processed_events, filler_entries, current_date, combined_events, tl_pc>>

rlVars == <<now, tokens, last_update, rl_pc, wake_at, returned>>

svcVars == <<reg_providers, svc_providers, supports, svc_cache, cached, user_keywords, svc_pc,
             svc_idx, consulted, svc_result, svc_reads>>

epgVars == <<teams_list, epg_pc, scoreboard_cache, scoreboard_lock, team_pc,
             team_scoreboard, futures, results, all_events, fetches,
             epg_cycles>>

rqVars == <<retry_count, retry_delay, rq_client, rq_pc, rq_attempt, rq_log, rq_result, rq_requests>>

eoVars == <<eo_manager, eo_channels, eo_rows, eo_pc, eo_result>>

rsVars == <<rs_context, rs_template, all_variables, rs_replacements, rs_result, rs_pc>>

dsVars == <<description_options, ds_context, priority_groups, ds_result, ds_pc>>

rgVars == <<league_lookup>>

imVars == <<im_teams, team_cache, im_importer, im_runs, im_request, im_result, im_repeat>>

lgVars == <<lg_logos, lg_unique, lg_cache, lg_pc, lg_url, lg_calls, lg_returned, lg_created>>

gzVars == <<gz_now, gz_name, gz_pc, gz_result>>

fcVars == <<fc_tz, fc_start_dt, fc_end_dt, fc_current_start, fc_time_blocks, fc_pc>>

lcVars == <<lc_now, extended_events, lc_todo, last_context>>

cpVars == <<cp_client, cp_closed, cp_created, cp_pc, cp_local, cp_attempt, cp_ssl_client>>

riVars == <<ri_initialized, ri_source, ri_instance, ri_created, ri_initialize_calls, ri_pc, ri_service>>

tmVars == <<tm_session_key, tm_sessions, tm_lock, tm_instance, tm_pc, tm_result, tm_calls, tm_issued, tm_clock>>

tsVars == <<ts_season, ts_supports, ts_cache, ts_days_ahead, ts_populated_by, ts_result, ts_pc, ts_reads>>

wrVars == <<wr_status, wr_updated_at, wr_message, wr_job, wr_pc, wr_before_updated, wr_polls, wr_last, wr_result, wr_completed>>

rfVars == <<rf_status, rf_gen, rf_thread, rf_queue, rf_last_event, rf_progress, rf_triggers, rf_errors>>

vars == <<ordVars, kwVars, numVars, tlVars, rlVars, svcVars, epgVars, rqVars, eoVars, rsVars, dsVars, rgVars, imVars, lgVars, gzVars, fcVars, lcVars, cpVars, riVars, tmVars, tsVars, wrVars, rfVars>>

\* What the ordering enforcer leaves alone.
ordOthers == <<kwVars, numVars, tlVars, rlVars, svcVars, epgVars, rqVars, eoVars, rsVars, dsVars, rgVars, imVars, lgVars, gzVars, fcVars, lcVars, cpVars, riVars, tmVars, tsVars, wrVars, rfVars>>
\* What the keyword enforcer leaves alone.
kwOthers == <<ordVars, numVars, tlVars, rlVars, svcVars, epgVars, rqVars, eoVars, rsVars, dsVars, rgVars, imVars, lgVars, gzVars, fcVars, lcVars, cpVars, riVars, tmVars, tsVars, wrVars, rfVars>>
\* What channel numbering leaves alone.
numOthers == <<ordVars, kwVars, tlVars, rlVars, svcVars, epgVars, rqVars, eoVars, rsVars, dsVars, rgVars, imVars, lgVars, gzVars, fcVars, lcVars, cpVars, riVars, tmVars, tsVars, wrVars, rfVars>>
\* What the per-team timeline leaves alone.
tlOthers == <<ordVars, kwVars, numVars, rlVars, svcVars, epgVars, rqVars, eoVars, rsVars, dsVars, rgVars, imVars, lgVars, gzVars, fcVars, lcVars, cpVars, riVars, tmVars, tsVars, wrVars, rfVars>>
\* What the rate limiter leaves alone.
rlOthers == <<ordVars, kwVars, numVars, tlVars, svcVars, epgVars, rqVars, eoVars, rsVars, dsVars, rgVars, imVars, lgVars, gzVars, fcVars, lcVars, cpVars, riVars, tmVars, tsVars, wrVars, rfVars>>
\* What the sports-data service leaves alone.
svcOthers == <<ordVars, kwVars, numVars, tlVars, rlVars, epgVars, rqVars, eoVars, rsVars, dsVars, rgVars, imVars, lgVars, gzVars, fcVars, lcVars, cpVars, riVars, tmVars, tsVars, wrVars, rfVars>>
\* What generate_epg leaves alone.
epgOthers == <<ordVars, kwVars, numVars, tlVars, rlVars, svcVars, rqVars, eoVars, rsVars, dsVars, rgVars, imVars, lgVars, gzVars, fcVars, lcVars, cpVars, riVars, tmVars, tsVars, wrVars, rfVars>>

\* What _request leaves alone.
rqOthers == <<ordVars, kwVars, numVars, tlVars, rlVars, svcVars, epgVars, eoVars, rsVars, dsVars, rgVars, imVars, lgVars, gzVars, fcVars, lcVars, cpVars, riVars, tmVars, tsVars, wrVars, rfVars>>

\* What compute_external_occupied leaves alone.
eoOthers == <<ordVars, kwVars, numVars, tlVars, rlVars, svcVars, epgVars, rqVars, rsVars, dsVars, rgVars, imVars, lgVars, gzVars, fcVars, lcVars, cpVars, riVars, tmVars, tsVars, wrVars, rfVars>>

\* What resolve leaves alone.
rsOthers == <<ordVars, kwVars, numVars, tlVars, rlVars, svcVars, epgVars, rqVars, eoVars, dsVars, rgVars, imVars, lgVars, gzVars, fcVars, lcVars, cpVars, riVars, tmVars, tsVars, wrVars, rfVars>>

\* What select_description leaves alone.
dsOthers == <<ordVars, kwVars, numVars, tlVars, rlVars, svcVars, epgVars, rqVars, eoVars, rsVars, rgVars, imVars, lgVars, gzVars, fcVars, lcVars, cpVars, riVars, tmVars, tsVars, wrVars, rfVars>>

\* What get_for_league leaves alone.
rgOthers == <<ordVars, kwVars, numVars, tlVars, rlVars, svcVars, epgVars, rqVars, eoVars, rsVars, dsVars, imVars, lgVars, gzVars, fcVars, lcVars, cpVars, riVars, tmVars, tsVars, wrVars, rfVars>>

\* What the bulk import leaves alone.
imOthers == <<ordVars, kwVars, numVars, tlVars, rlVars, svcVars, epgVars, rqVars, eoVars, rsVars, dsVars, rgVars, lgVars, gzVars, fcVars, lcVars, cpVars, riVars, tmVars, tsVars, wrVars, rfVars>>

\* What the logo manager leaves alone.
lgOthers == <<ordVars, kwVars, numVars, tlVars, rlVars, svcVars, epgVars, rqVars, eoVars, rsVars, dsVars, rgVars, imVars, gzVars, fcVars, lcVars, cpVars, riVars, tmVars, tsVars, wrVars, rfVars>>

\* What the Gold Zone date check leaves alone.
gzOthers == <<ordVars, kwVars, numVars, tlVars, rlVars, svcVars, epgVars, rqVars, eoVars, rsVars, dsVars, rgVars, imVars, lgVars, fcVars, lcVars, cpVars, riVars, tmVars, tsVars, wrVars, rfVars>>

\* What the filler chunk loop leaves alone.
fcOthers == <<ordVars, kwVars, numVars, tlVars, rlVars, svcVars, epgVars, rqVars, eoVars, rsVars, dsVars, rgVars, imVars, lgVars, gzVars, lcVars, cpVars, riVars, tmVars, tsVars, wrVars, rfVars>>

\* What the LAST context leaves alone.
lcOthers == <<ordVars, kwVars, numVars, tlVars, rlVars, svcVars, epgVars, rqVars, eoVars, rsVars, dsVars, rgVars, imVars, lgVars, gzVars, fcVars, cpVars, riVars, tmVars, tsVars, wrVars, rfVars>>

\* What the connection pool leaves alone.
cpOthers == <<ordVars, kwVars, numVars, tlVars, rlVars, svcVars, epgVars, rqVars, eoVars, rsVars, dsVars, rgVars, imVars, lgVars, gzVars, fcVars, lcVars, riVars, tmVars, tsVars, wrVars, rfVars>>

\* What the registry initialisation leaves alone.
riOthers == <<ordVars, kwVars, numVars, tlVars, rlVars, svcVars, epgVars, rqVars, eoVars, rsVars, dsVars, rgVars, imVars, lgVars, gzVars, fcVars, lcVars, cpVars, tmVars, tsVars, wrVars, rfVars>>

\* everything but the token manager
tmOthers == <<ordVars, kwVars, numVars, tlVars, rlVars, svcVars, epgVars, rqVars, eoVars, rsVars, dsVars, rgVars, imVars, lgVars, gzVars, fcVars, lcVars, cpVars, riVars, tsVars, wrVars, rfVars>>

\* everything but the team-schedule reads
tsOthers == <<ordVars, kwVars, numVars, tlVars, rlVars, svcVars, epgVars, rqVars, eoVars, rsVars, dsVars, rgVars, imVars, lgVars, gzVars, fcVars, lcVars, cpVars, riVars, tmVars, wrVars, rfVars>>

\* everything but the EPG refresh wait
wrOthers == <<ordVars, kwVars, numVars, tlVars, rlVars, svcVars, epgVars, rqVars, eoVars, rsVars, dsVars, rgVars, imVars, lgVars, gzVars, fcVars, lcVars, cpVars, riVars, tmVars, tsVars, rfVars>>

\* everything but the cache refresh route
rfOthers == <<ordVars, kwVars, numVars, tlVars, rlVars, svcVars, epgVars, rqVars, eoVars, rsVars, dsVars, rgVars, imVars, lgVars, gzVars, fcVars, lcVars, cpVars, riVars, tmVars, tsVars, wrVars>>

NoValue == [none |-> TRUE]

\* The value each subsystem's variables keep while another subsystem runs.
OrdParked ==
    /\ channel_number = <<>>
    /\ deleted_at = <<>>
    /\ dispatcharr_number = <<>>
    /\ channel_manager = FALSE
    /\ channel_history = {}
    /\ ord_pc = "parked"
    /\ pairs = {}
    /\ pair = NoValue
    /\ reordered = 0
    /\ ord_errors = 0
    /\ ord_runs = 0
    /\ ord_prev_ok = FALSE
    /\ ord_at_start = NoValue

KwParked ==
    /\ exception_keywords = <<>>
    /\ kw_active = {}
    /\ stream_token = <<>>
    /\ kw_rows = {}
    /\ d_streams = <<>>
    /\ kw_manager = FALSE
    /\ kw_history = {}
    /\ kw_pc = "parked"
    /\ kw_todo = {}
    /\ kw_channel = 0
    /\ kw_streams = <<>>
    /\ kw_move = NoValue
    /\ streams_moved = 0
    /\ streams_correct = 0
    /\ kw_errors = 0
    /\ kw_runs = 0
    /\ kw_at_start = {}
    /\ kw_moves = {}
    /\ kw_failed_moves = {}
    /\ kw_run_failed = FALSE

NumParked ==
    /\ managed_number = <<>>
    /\ managed_deleted = <<>>
    /\ numbering_mode = "parked"
    /\ dispatcharr_numbers = {}
    /\ external_occupied = {}
    /\ last_assignment = NoValue

TlParked ==
    /\ team = NoValue
    /\ midnight_mode = "parked"
    /\ days_ahead = 0
    /\ epg_start_datetime = 0
    /\ events = {}
    /\ processed_events = <<>>
    /\ filler_entries = <<>>
    /\ current_date = 0
    /\ combined_events = <<>>
    /\ tl_pc = "parked"

RlParked ==
    /\ now = 0
    /\ tokens = 0
    /\ last_update = 0
    /\ rl_pc = <<>>
    /\ wake_at = <<>>
    /\ returned = <<>>

SvcParked ==
    /\ reg_providers = <<>>
    /\ svc_providers = <<>>
    /\ supports = <<>>
    /\ svc_cache = 0
    /\ cached = 0
    /\ user_keywords = NoValue
    /\ svc_pc = "parked"
    /\ svc_idx = 0
    /\ consulted = <<>>
    /\ svc_result = 0
    /\ svc_reads = 0

EpgParked ==
    /\ teams_list = {}
    /\ epg_pc = "parked"
    /\ scoreboard_cache = <<>>
    /\ scoreboard_lock = 0
    /\ team_pc = <<>>
    /\ team_scoreboard = <<>>
    /\ futures = <<>>
    /\ results = <<>>
    /\ all_events = <<>>
    /\ fetches = <<>>
    /\ epg_cycles = 0

RqParked ==
    /\ retry_count = 0
    /\ retry_delay = 0
    /\ rq_client = "parked"
    /\ rq_pc = "parked"
    /\ rq_attempt = 0
    /\ rq_log = <<>>
    /\ rq_result = "parked"
    /\ rq_requests = 0

EoParked ==
    /\ eo_manager = FALSE
    /\ eo_channels = {}
    /\ eo_rows = {}
    /\ eo_pc = "parked"
    /\ eo_result = {}

RsParked ==
    /\ rs_context = NoValue
    /\ rs_template = <<>>
    /\ all_variables = <<>>
    /\ rs_replacements = <<>>
    /\ rs_result = <<>>
    /\ rs_pc = "parked"

DsParked ==
    /\ description_options = NoValue
    /\ ds_context = NoValue
    /\ priority_groups = <<>>
    /\ ds_result = NoValue
    /\ ds_pc = "parked"

RgParked ==
    /\ league_lookup = NoValue

ImParked ==
    /\ im_teams = <<>>
    /\ team_cache = {}
    /\ im_importer = "parked"
    /\ im_runs = 0
    /\ im_request = <<>>
    /\ im_result = NoValue
    /\ im_repeat = FALSE

LgParked ==
    /\ lg_logos = {}
    /\ lg_unique = FALSE
    /\ lg_cache = {}
    /\ lg_pc = <<>>
    /\ lg_url = <<>>
    /\ lg_calls = 0
    /\ lg_returned = {}
    /\ lg_created = {}

GzParked ==
    /\ gz_now = NoValue
    /\ gz_name = NoValue
    /\ gz_pc = "parked"
    /\ gz_result = NoValue

FcParked ==
    /\ fc_tz = 0
    /\ fc_start_dt = NoValue
    /\ fc_end_dt = NoValue
    /\ fc_current_start = NoValue
    /\ fc_time_blocks = <<>>
    /\ fc_pc = "parked"

LcParked ==
    /\ lc_now = 0
    /\ extended_events = {}
    /\ lc_todo = {}
    /\ last_context = <<>>

CpParked ==
    /\ cp_client = 0
    /\ cp_closed = {}
    /\ cp_created = 0
    /\ cp_pc = <<>>
    /\ cp_local = <<>>
    /\ cp_attempt = <<>>
    /\ cp_ssl_client = <<>>

RiParked ==
    /\ ri_initialized = FALSE
    /\ ri_source = 0
    /\ ri_instance = NoValue
    /\ ri_created = 0
    /\ ri_initialize_calls = 0
    /\ ri_pc = <<>>
    /\ ri_service = <<>>

TmParked ==
    /\ tm_session_key = <<>>
    /\ tm_sessions = <<>>
    /\ tm_lock = <<>>
    /\ tm_instance = <<>>
    /\ tm_pc = <<>>
    /\ tm_result = <<>>
    /\ tm_calls = <<>>
    /\ tm_issued = 0
    /\ tm_clock = 0

TsParked ==
    /\ ts_season = {}
    /\ ts_supports = <<>>
    /\ ts_cache = NoValue
    /\ ts_days_ahead = 0
    /\ ts_populated_by = 0
    /\ ts_result = {}
    /\ ts_pc = "parked"
    /\ ts_reads = 0

WrParked ==
    /\ wr_status = "parked"
    /\ wr_updated_at = 0
    /\ wr_message = ""
    /\ wr_job = "none"
    /\ wr_pc = "parked"
    /\ wr_before_updated = 0
    /\ wr_polls = 0
    /\ wr_last = NoValue
    /\ wr_result = NoValue
    /\ wr_completed = FALSE

RfParked ==
    /\ rf_status = "parked"
    /\ rf_gen = <<>>
    /\ rf_thread = <<>>
    /\ rf_queue = <<>>
    /\ rf_last_event = <<>>
    /\ rf_progress = <<>>
    /\ rf_triggers = 0
    /\ rf_errors = 0


(***************************************************************************)
(* Keyword ordering enforcer                                               *)
(***************************************************************************)

\* Bounds of the ordering model.
NumChannels == 5
MaxOrdRuns == 2

Channels == 1..NumChannels

\* Static columns of managed_channels.  Channels come in groups of three
\* rows: one main channel (no exception_keyword) followed by two keyword
\* variants.  All rows carry the same event_id; consecutive triples belong
\* to different event groups, so only rows of one triple join.
ChanEventId(c) == 1
ChanGroupId(c) == 1 + ((c - 1) \div 3)
ChanKeyword(c) == (c - 1) % 3          \* 0 = NULL / '' (main channel)

IsMain(c) == ChanKeyword(c) = 0
IsVariant(c) == ChanKeyword(c) # 0

\* A join that misses a variant numbered directly below its main channel.
NeedsReorderOffByOne(nums, del, m, k) ==
    /\ ChanEventId(m) = ChanEventId(k)
    /\ ChanGroupId(m) = ChanGroupId(k)
    /\ ~del[m]
    /\ ~del[k]
    /\ IsMain(m)
    /\ IsVariant(k)
    /\ nums[k] + 1 < nums[m]

\* The join of _get_channels_needing_reorder, evaluated on the table.
NeedsReorder(nums, del, m, k) ==
    /\ ChanEventId(m) = ChanEventId(k)
    /\ ChanGroupId(m) = ChanGroupId(k)
    /\ ~del[m]
    /\ ~del[k]
    /\ IsMain(m)
    /\ IsVariant(k)
    /\ nums[k] < nums[m]

GetChannelsNeedingReorder(nums, del) ==
    { [main_channel |-> m, keyword_channel |-> k,
       main_number |-> nums[m], keyword_number |-> nums[k]] :
        <<m, k>> \in { mk \in Channels \X Channels :
                          NeedsReorder(nums, del, mk[1], mk[2]) } }

\* A swap that writes each channel's own number back.
SwapInDatabaseSameNumbers(nums, p) ==
    [nums EXCEPT ![p.main_channel] = p.main_number,
                 ![p.keyword_channel] = p.keyword_number]

\* update_managed_channel twice: main takes the keyword's number and the
\* keyword channel takes the main's, both as read when the pairs were
\* selected.
SwapInDatabase(nums, p) ==
    [nums EXCEPT ![p.main_channel] = p.keyword_number,
                 ![p.keyword_channel] = p.main_number]

\* Active channels hold pairwise different numbers (numbering assigns free
\* numbers only); the downstream manager starts in step with persistence.
OrdInit ==
    /\ channel_number \in { f \in [Channels -> 1..NumChannels] :
                              \A a, b \in Channels : a # b => f[a] # f[b] }
    /\ deleted_at \in { d \in [Channels -> BOOLEAN] :
                              \A c \in Channels : d[c] => c = NumChannels }
    /\ dispatcharr_number = channel_number
    /\ channel_manager \in BOOLEAN
    /\ channel_history = {}
    /\ ord_pc = "idle"
    /\ pairs = {}
    /\ pair = NoValue
    /\ reordered = 0
    /\ ord_errors = 0
    /\ ord_runs = 0
    /\ ord_prev_ok = FALSE
    /\ ord_at_start = NoValue

\* enforce(): open the connection and select the pairs.
OrdEnforceStart ==
    /\ ord_pc \in {"idle", "done"}
    /\ ord_runs < MaxOrdRuns
    /\ pairs' = GetChannelsNeedingReorder(channel_number, deleted_at)
    /\ pair' = NoValue
    /\ reordered' = 0
    /\ ord_errors' = 0
    /\ ord_prev_ok' = (ord_pc = "done" /\ ord_errors = 0)
    /\ ord_at_start' = [db |-> channel_number, ds |-> dispatcharr_number]
    /\ ord_pc' = "loop"
    /\ UNCHANGED <<channel_number, deleted_at, dispatcharr_number,
                   channel_manager, channel_history, ord_runs>>
    /\ UNCHANGED ordOthers

\* for pair in pairs: the rows come without ORDER BY, so any order.
OrdNextPair ==
    /\ ord_pc = "loop"
    /\ \E p \in pairs :
        /\ pair' = p
        /\ pairs' = pairs \ {p}
    /\ ord_pc' = IF channel_manager THEN "update_main" ELSE "swap_db"
    /\ UNCHANGED <<channel_number, deleted_at, dispatcharr_number,
                   channel_manager, channel_history, reordered, ord_errors,
                   ord_runs, ord_prev_ok, ord_at_start>>
    /\ UNCHANGED ordOthers

\* except Exception inside the loop: record the error, go on with the next pair.
OrdPairFailed ==
    /\ ord_errors' = ord_errors + 1
    /\ pair' = NoValue
    /\ ord_pc' = "loop"

\* update_channel(main, {channel_number: keyword_number}); it may raise.
OrdUpdateMain ==
    /\ ord_pc = "update_main"
    /\ \/ /\ dispatcharr_number' =
                [dispatcharr_number EXCEPT ![pair.main_channel] = pair.keyword_number]
          /\ ord_pc' = "update_keyword"
          /\ UNCHANGED <<pair, ord_errors>>
       \/ /\ OrdPairFailed
          /\ UNCHANGED dispatcharr_number
    /\ UNCHANGED <<channel_number, deleted_at, channel_manager, channel_history,
                   pairs, reordered, ord_runs, ord_prev_ok, ord_at_start>>
    /\ UNCHANGED ordOthers

\* update_channel(keyword, {channel_number: main_number}); it may raise.
OrdUpdateKeyword ==
    /\ ord_pc = "update_keyword"
    /\ \/ /\ dispatcharr_number' =
                [dispatcharr_number EXCEPT ![pair.keyword_channel] = pair.main_number]
          /\ ord_pc' = "swap_db"
          /\ UNCHANGED <<pair, ord_errors>>
       \/ /\ OrdPairFailed
          /\ UNCHANGED dispatcharr_number
    /\ UNCHANGED <<channel_number, deleted_at, channel_manager, channel_history,
                   pairs, reordered, ord_runs, ord_prev_ok, ord_at_start>>
    /\ UNCHANGED ordOthers

\* Swap in database, log history on both channels, result.reordered.append.
OrdSwapDb ==
    /\ ord_pc = "swap_db"
    /\ channel_number' = SwapInDatabase(channel_number, pair)
    /\ channel_history' = channel_history \union
          { <<pair.main_channel, pair.main_number, pair.keyword_number>>,
            <<pair.keyword_channel, pair.keyword_number, pair.main_number>> }
    /\ reordered' = reordered + 1
    /\ pair' = NoValue
    /\ ord_pc' = "loop"
    /\ UNCHANGED <<deleted_at, dispatcharr_number, channel_manager, pairs,
                   ord_errors, ord_runs, ord_prev_ok, ord_at_start>>
    /\ UNCHANGED ordOthers

\* conn.commit() and return result.
OrdCommit ==
    /\ ord_pc = "loop"
    /\ pairs = {}
    /\ ord_pc' = "done"
    /\ ord_runs' = ord_runs + 1
    /\ UNCHANGED <<channel_number, deleted_at, dispatcharr_number,
                   channel_manager, channel_history, pairs, pair, reordered,
                   ord_errors, ord_prev_ok, ord_at_start>>
    /\ UNCHANGED ordOthers

OrdNext ==
    \/ OrdEnforceStart
    \/ OrdNextPair
    \/ OrdUpdateMain
    \/ OrdUpdateKeyword
    \/ OrdSwapDb
    \/ OrdCommit

InitOrdering == OrdInit /\ KwParked /\ NumParked /\ TlParked /\ RlParked /\ SvcParked /\ EpgParked /\ RqParked /\ EoParked /\ RsParked /\ DsParked /\ RgParked /\ ImParked /\ LgParked /\ GzParked /\ FcParked /\ LcParked /\ CpParked /\ RiParked /\ TmParked /\ TsParked /\ WrParked /\ RfParked

SpecOrdering == InitOrdering /\ [][OrdNext]_vars

SameEvent(m, k) ==
    /\ ChanEventId(m) = ChanEventId(k)
    /\ ChanGroupId(m) = ChanGroupId(k)

ActiveVariantsOf(m) ==
    { k \in Channels : SameEvent(m, k) /\ IsVariant(k) /\ ~deleted_at[k] }

\* C1: when enforce() has returned without errors, every active main
\* channel has a strictly lower number in persistence than each active
\* keyword variant of the same event and event group.
C1_MainBelowVariants ==
    (ord_pc = "done" /\ ord_errors = 0) =>
        \A m \in Channels :
            (IsMain(m) /\ ~deleted_at[m]) =>
                \A k \in ActiveVariantsOf(m) :
                    channel_number[m] < channel_number[k]

\* An error-free run that swapped a main channel with two variants.
C1_Witness ==
    /\ ord_pc = "done"
    /\ ord_errors = 0
    /\ reordered >= 2
    /\ \E m \in Channels :
          /\ IsMain(m)
          /\ Cardinality(ActiveVariantsOf(m)) >= 2
          /\ \A k \in ActiveVariantsOf(m) :
                <<k, ord_at_start.db[k], ord_at_start.db[m]>> \in channel_history

\* C7: a run of enforce() that starts right after a run that returned
\* without errors selects no pair and leaves every channel number as it
\* was, in persistence and in the downstream manager.
C7_RerunIsNoOp ==
    ord_prev_ok =>
        /\ pairs = {}
        /\ pair = NoValue
        /\ reordered = 0
        /\ channel_number = ord_at_start.db
        /\ dispatcharr_number = ord_at_start.ds

\* A second run has finished after a first run that swapped something.
C7_Witness ==
    /\ ord_prev_ok
    /\ ord_pc = "done"
    /\ ord_runs = 2
    /\ channel_history # {}

\* with self._dispatcharr_lock: the ordering enforcer is inside the block,
\* between the first update_channel of a pair and the second
OrdLockHeld == ord_pc = "update_keyword"

\* the channels enforce() has given another number, in either store
OrdTouched ==
    { c \in Channels : \/ channel_number[c] # ord_at_start.db[c]
                       \/ dispatcharr_number[c] # ord_at_start.ds[c] }

\* C25: when enforce() has returned, every channel whose number it changed,
\* in persistence or in the downstream manager, has the same number in both,
\* also when an update call of a swap failed.
C25_SwapAtomicWithLocalRecord ==
    (ord_pc = "done" /\ channel_manager) =>
        \A c \in OrdTouched : dispatcharr_number[c] = channel_number[c]

SwappedIn(nums, p) ==
    /\ nums[p.main_channel] = p.keyword_number
    /\ nums[p.keyword_channel] = p.main_number

\* C26: whenever the enforcer's lock is free, the pair it is working on is
\* swapped in the downstream manager exactly if it is swapped in
\* persistence.
C26_SwapInsideOneCriticalSection ==
    (channel_manager /\ pair # NoValue /\ ~OrdLockHeld) =>
        (SwappedIn(dispatcharr_number, pair) <=> SwappedIn(channel_number, pair))

ActiveWithNumber(nums, n) ==
    { c \in Channels : ~deleted_at[c] /\ nums[c] = n }

\* C29: when enforce() has returned, every number is held by as many active
\* channels as when it began, and no two active channels hold the same
\* number.
C29_NumbersOnlyExchanged ==
    ord_pc = "done" =>
        \A n \in 1..NumChannels :
            /\ Cardinality(ActiveWithNumber(channel_number, n))
                  = Cardinality(ActiveWithNumber(ord_at_start.db, n))
            /\ Cardinality(ActiveWithNumber(channel_number, n)) <= 1


(***************************************************************************)
(* Keyword enforcer                                                        *)
(***************************************************************************)

\* Bounds of the keyword enforcement model.
NumKwChannels == 3
NumStreams == 2
NumKeywords == 2
MaxKwRuns == 2

KwChannels == 1..NumKwChannels
Streams == 1..NumStreams
Keywords == 1..NumKeywords
Behaviors == {"separate", "ignore"}

\* check_exception_keyword(stream_name, exception_keywords): the configured
\* keyword the name contains and its behavior, or (None, None).
CheckExceptionKeyword(token, kws) ==
    IF token \in DOMAIN kws
        THEN [keyword |-> token, behavior |-> kws[token]]
        ELSE [keyword |-> 0, behavior |-> "none"]

\* channel_lookup[(group, event, provider)].get(kw); 0 stands for None.
ChannelLookup(active, c, kw) ==
    LET hits == { t \in active : /\ ChanGroupId(t) = ChanGroupId(c)
                                 /\ ChanEventId(t) = ChanEventId(c)
                                 /\ ChanKeyword(t) = kw }
    IN IF hits = {} THEN 0 ELSE CHOOSE t \in hits : TRUE

\* The target of a misplaced stream: the channel for its keyword, or the
\* main channel when the keyword channel does not exist.
TargetChannel(active, c, expected) ==
    LET t == ChannelLookup(active, c, expected)
    IN IF t = 0 /\ expected # 0 THEN ChannelLookup(active, c, 0) ELSE t

RowsOf(rows, c) == { r \in rows : r.ch = c }

RECURSIVE ByPriority(_)
ByPriority(rs) ==
    IF rs = {} THEN <<>>
    ELSE LET first == CHOOSE r \in rs :
                 \A q \in rs : \/ r.priority < q.priority
                               \/ (r.priority = q.priority /\ r.stream <= q.stream)
         IN <<first.stream>> \o ByPriority(rs \ {first})

\* get_channel_streams(conn, channel.id, include_removed=False)
GetChannelStreams(rows, c) == ByPriority(RowsOf(rows, c))

MaxOf(S) == CHOOSE x \in S : \A y \in S : y <= x

\* COALESCE(MAX(priority), -1) + 1 over the channel's active rows
GetNextStreamPriority(rows, c) ==
    IF RowsOf(rows, c) = {} THEN 0
    ELSE MaxOf({ r.priority : r \in RowsOf(rows, c) }) + 1

RemoveStreamFromChannel(rows, c, s) ==
    { r \in rows : ~(r.ch = c /\ r.stream = s) }

AddStreamToChannel(rows, c, s, p) ==
    rows \union { [ch |-> c, stream |-> s, priority |-> p] }

SeqRange(q) == { q[i] : i \in DOMAIN q }

\* _move_stream_in_dispatcharr, "Remove from source"
DispatcharrRemove(ds, from, s) ==
    [ds EXCEPT ![from] = SelectSeq(@, LAMBDA x : x # s)]

\* _move_stream_in_dispatcharr, "Add to target"
DispatcharrAdd(ds, to, s) ==
    IF s \in SeqRange(ds[to]) THEN ds ELSE [ds EXCEPT ![to] = Append(@, s)]

\* Rows of streams attached at consecutive priorities, in stream id order.
InitialRows(attach) ==
    { [ch |-> attach[s], stream |-> s,
       priority |-> Cardinality({ t \in Streams : t < s /\ attach[t] = attach[s] })] :
      s \in Streams }

KwInit ==
    /\ exception_keywords \in UNION { [K -> Behaviors] : K \in SUBSET Keywords }
    /\ kw_active \in (SUBSET KwChannels) \ {{}}
    /\ stream_token \in [Streams -> 0..NumKeywords]
    /\ kw_rows \in { InitialRows(attach) : attach \in [Streams -> kw_active] }
    /\ d_streams = [c \in KwChannels |-> GetChannelStreams(kw_rows, c)]
    /\ kw_manager \in BOOLEAN
    /\ kw_history = {}
    /\ kw_pc = "idle"
    /\ kw_todo = {}
    /\ kw_channel = 0
    /\ kw_streams = <<>>
    /\ kw_move = NoValue
    /\ streams_moved = 0
    /\ streams_correct = 0
    /\ kw_errors = 0
    /\ kw_runs = 0
    /\ kw_at_start = {}
    /\ kw_moves = {}
    /\ kw_failed_moves = {}
    /\ kw_run_failed = FALSE

kwConfig == <<exception_keywords, kw_active, stream_token, kw_manager>>

\* enforce(): load the keywords and the active channels; with no keyword
\* configured it returns at once.
KwEnforceStart ==
    /\ kw_pc \in {"idle", "done"}
    /\ kw_runs < MaxKwRuns
    /\ streams_moved' = 0
    /\ streams_correct' = 0
    /\ kw_errors' = 0
    /\ kw_at_start' = kw_rows
    /\ kw_moves' = {}
    /\ kw_run_failed' = FALSE
    /\ kw_channel' = 0
    /\ kw_streams' = <<>>
    /\ kw_move' = NoValue
    /\ IF DOMAIN exception_keywords = {}
         THEN /\ kw_pc' = "done"
              /\ kw_runs' = kw_runs + 1
              /\ kw_todo' = {}
         ELSE /\ kw_pc' = "sweep"
              /\ kw_runs' = kw_runs
              /\ kw_todo' = kw_active
    /\ UNCHANGED <<kwConfig, kw_rows, d_streams, kw_history, kw_failed_moves>>
    /\ UNCHANGED kwOthers

\* for channel in channels: streams = get_channel_streams(...)
KwNextChannel ==
    /\ kw_pc = "sweep"
    /\ kw_streams = <<>>
    /\ \E c \in kw_todo :
        /\ kw_channel' = c
        /\ kw_todo' = kw_todo \ {c}
        /\ kw_streams' = GetChannelStreams(kw_rows, c)
    /\ UNCHANGED <<kwConfig, kw_rows, d_streams, kw_history, kw_pc, kw_move,
                   streams_moved, streams_correct, kw_errors, kw_runs,
                   kw_at_start, kw_moves, kw_failed_moves, kw_run_failed>>
    /\ UNCHANGED kwOthers

KwStream == Head(kw_streams)
KwCheck == CheckExceptionKeyword(stream_token[KwStream], exception_keywords)
KwTarget == TargetChannel(kw_active, kw_channel, KwCheck.keyword)

\* behavior == "ignore": remove_stream_from_channel, nothing else.
KwRemoveIgnored ==
    /\ kw_pc = "sweep"
    /\ kw_streams # <<>>
    /\ KwCheck.behavior = "ignore"
    /\ kw_rows' = RemoveStreamFromChannel(kw_rows, kw_channel, KwStream)
    /\ streams_moved' = streams_moved + 1
    /\ kw_streams' = Tail(kw_streams)
    /\ UNCHANGED <<kwConfig, d_streams, kw_history, kw_pc, kw_todo, kw_channel,
                   kw_move, streams_correct, kw_errors, kw_runs, kw_at_start,
                   kw_moves, kw_failed_moves, kw_run_failed>>
    /\ UNCHANGED kwOthers

\* current_keyword == expected_keyword, or the target is this channel.
KwStreamCorrect ==
    /\ kw_pc = "sweep"
    /\ kw_streams # <<>>
    /\ KwCheck.behavior # "ignore"
    /\ \/ ChanKeyword(kw_channel) = KwCheck.keyword
       \/ KwTarget = kw_channel
    /\ streams_correct' = streams_correct + 1
    /\ kw_streams' = Tail(kw_streams)
    /\ UNCHANGED <<kwConfig, kw_rows, d_streams, kw_history, kw_pc, kw_todo,
                   kw_channel, kw_move, streams_moved, kw_errors, kw_runs,
                   kw_at_start, kw_moves, kw_failed_moves, kw_run_failed>>
    /\ UNCHANGED kwOthers

\* No target channel: record the error, leave the stream where it is.
KwNoTarget ==
    /\ kw_pc = "sweep"
    /\ kw_streams # <<>>
    /\ KwCheck.behavior # "ignore"
    /\ ChanKeyword(kw_channel) # KwCheck.keyword
    /\ KwTarget = 0
    /\ kw_errors' = kw_errors + 1
    /\ kw_streams' = Tail(kw_streams)
    /\ UNCHANGED <<kwConfig, kw_rows, d_streams, kw_history, kw_pc, kw_todo,
                   kw_channel, kw_move, streams_moved, streams_correct, kw_runs,
                   kw_at_start, kw_moves, kw_failed_moves, kw_run_failed>>
    /\ UNCHANGED kwOthers

\* log_channel_history on both channels and result.streams_moved.append
KwLogMove(m) ==
    /\ kw_history' = kw_history \union
          { <<m.from, "stream_removed", m.stream>>,
            <<m.to, "stream_added", m.stream>> }
    /\ streams_moved' = streams_moved + 1

\* Move stream: remove from current, add to target at the next priority;
\* without a channel manager the move ends here.
KwMoveStream ==
    /\ kw_pc = "sweep"
    /\ kw_streams # <<>>
    /\ KwCheck.behavior # "ignore"
    /\ ChanKeyword(kw_channel) # KwCheck.keyword
    /\ KwTarget # 0
    /\ KwTarget # kw_channel
    /\ LET removed == RemoveStreamFromChannel(kw_rows, kw_channel, KwStream)
           priority == GetNextStreamPriority(removed, KwTarget)
           m == [stream |-> KwStream, from |-> kw_channel, to |-> KwTarget,
                 priority |-> priority]
       IN /\ kw_rows' = AddStreamToChannel(removed, KwTarget, KwStream, priority)
          /\ kw_moves' = kw_moves \union {m}
          /\ IF kw_manager
               THEN /\ kw_pc' = "sync"
                    /\ kw_move' = m
                    /\ UNCHANGED <<kw_history, streams_moved>>
               ELSE /\ KwLogMove(m)
                    /\ UNCHANGED <<kw_pc, kw_move>>
    /\ kw_streams' = Tail(kw_streams)
    /\ UNCHANGED <<kwConfig, d_streams, kw_todo, kw_channel, streams_correct,
                   kw_errors, kw_runs, kw_at_start, kw_failed_moves,
                   kw_run_failed>>
    /\ UNCHANGED kwOthers

\* _move_stream_in_dispatcharr: both updates succeed.
KwSyncDispatcharr ==
    /\ kw_pc = "sync"
    /\ d_streams' = DispatcharrAdd(
                        DispatcharrRemove(d_streams, kw_move.from, kw_move.stream),
                        kw_move.to, kw_move.stream)
    /\ KwLogMove(kw_move)
    /\ kw_move' = NoValue
    /\ kw_pc' = "sweep"
    /\ UNCHANGED <<kwConfig, kw_rows, kw_todo, kw_channel, kw_streams,
                   streams_correct, kw_errors, kw_runs, kw_at_start, kw_moves,
                   kw_failed_moves, kw_run_failed>>
    /\ UNCHANGED kwOthers

\* _move_stream_in_dispatcharr: a downstream call raises, before the removal
\* or between the removal and the addition; the exception is logged and
\* swallowed, enforce() goes on as after a successful sync.
KwSyncFails ==
    /\ kw_pc = "sync"
    /\ \/ UNCHANGED d_streams
       \/ d_streams' = DispatcharrRemove(d_streams, kw_move.from, kw_move.stream)
    /\ kw_failed_moves' = kw_failed_moves \union {kw_move}
    /\ kw_run_failed' = TRUE
    /\ KwLogMove(kw_move)
    /\ kw_move' = NoValue
    /\ kw_pc' = "sweep"
    /\ UNCHANGED <<kwConfig, kw_rows, kw_todo, kw_channel, kw_streams,
                   streams_correct, kw_errors, kw_runs, kw_at_start, kw_moves>>
    /\ UNCHANGED kwOthers

\* conn.commit() and return result.
KwCommit ==
    /\ kw_pc = "sweep"
    /\ kw_streams = <<>>
    /\ kw_todo = {}
    /\ kw_pc' = "done"
    /\ kw_runs' = kw_runs + 1
    /\ UNCHANGED <<kwConfig, kw_rows, d_streams, kw_history, kw_todo, kw_channel,
                   kw_streams, kw_move, streams_moved, streams_correct,
                   kw_errors, kw_at_start, kw_moves, kw_failed_moves,
                   kw_run_failed>>
    /\ UNCHANGED kwOthers

KwNext ==
    \/ KwEnforceStart
    \/ KwNextChannel
    \/ KwRemoveIgnored
    \/ KwStreamCorrect
    \/ KwNoTarget
    \/ KwMoveStream
    \/ KwSyncDispatcharr
    \/ KwSyncFails
    \/ KwCommit

InitKeyword == KwInit /\ OrdParked /\ NumParked /\ TlParked /\ RlParked /\ SvcParked /\ EpgParked /\ RqParked /\ EoParked /\ RsParked /\ DsParked /\ RgParked /\ ImParked /\ LgParked /\ GzParked /\ FcParked /\ LcParked /\ CpParked /\ RiParked /\ TmParked /\ TsParked /\ WrParked /\ RfParked

SpecKeyword == InitKeyword /\ [][KwNext]_vars

(***************************************************************************)
(* The two enforcers of one process, run by different threads on the same  *)
(* downstream manager: one enforce() of each, their steps interleaved as   *)
(* the locks they take allow.  KeywordOrderingEnforcer.__init__ and        *)
(* KeywordEnforcer.__init__ each create their own threading.Lock(), so the *)
(* lock of one never blocks a step of the other.                           *)
(***************************************************************************)
InitEnforcers ==
    /\ OrdInit /\ KwInit
    /\ channel_manager /\ kw_manager
    /\ \A c \in Channels : ~deleted_at[c]
    /\ channel_number[1] = 3
    /\ \A c \in Channels : c > 3 => channel_number[c] = c
    /\ kw_active = KwChannels
    /\ DOMAIN exception_keywords = {1}
    /\ stream_token[1] \in {0, 1} /\ stream_token[2] = 0
    /\ NumParked /\ TlParked /\ RlParked /\ SvcParked /\ EpgParked /\ RqParked /\ EoParked /\ RsParked /\ DsParked /\ RgParked /\ ImParked /\ LgParked /\ GzParked /\ FcParked /\ LcParked /\ CpParked /\ RiParked /\ TmParked /\ TsParked /\ WrParked /\ RfParked

EnfNext ==
    \/ ord_runs = 0 /\ OrdNext
    \/ kw_runs = 0 /\ KwNext

SpecEnforcers == InitEnforcers /\ [][EnfNext]_vars

\* C27: while the ordering enforcer is inside its critical section, between
\* the two number updates of a swap, no stream is added to or removed from a
\* channel in the downstream manager.
C27_MovesAndSwapsSerialized ==
    [][OrdLockHeld => d_streams' = d_streams]_vars

\* The keyword and behavior matched by a stream's name.
Matched(s) == CheckExceptionKeyword(stream_token[s], exception_keywords)

AttachedTo(rows, c) == { r.stream : r \in RowsOf(rows, c) }

\* C8: after a sweep of enforce(), every stream that was attached to a
\* channel whose keyword differs from the stream's matched keyword, and
\* whose event has a channel for that keyword, is detached from the channel
\* it was on and attached to the channel for its keyword at a priority above
\* the streams that were already there, and the downstream manager's stream
\* lists show the same move.
C8_MismatchedStreamsMoved ==
    (kw_pc = "done" /\ DOMAIN exception_keywords # {}) =>
        \A r \in kw_at_start :
            LET t == ChannelLookup(kw_active, r.ch, Matched(r.stream).keyword)
            IN (/\ Matched(r.stream).behavior # "ignore"
                /\ ChanKeyword(r.ch) # Matched(r.stream).keyword
                /\ t # 0)
               => /\ r.stream \notin AttachedTo(kw_rows, r.ch)
                  /\ \E q \in RowsOf(kw_rows, t) :
                        /\ q.stream = r.stream
                        /\ \A o \in RowsOf(kw_rows, t) \intersect kw_at_start :
                              o.priority < q.priority
                  /\ kw_manager =>
                        /\ r.stream \notin SeqRange(d_streams[r.ch])
                        /\ r.stream \in SeqRange(d_streams[t])

\* C9: after a sweep of enforce(), a stream whose matched keyword has
\* behavior 'ignore' is attached to no managed channel, in local persistence
\* and in the downstream manager.
C9_IgnoredStreamsRemoved ==
    kw_pc = "done" =>
        \A s \in Streams :
            Matched(s).behavior = "ignore" =>
                \A c \in KwChannels :
                    /\ s \notin AttachedTo(kw_rows, c)
                    /\ kw_manager => s \notin SeqRange(d_streams[c])

\* C10: when a run of enforce() ends in which no downstream call failed,
\* every move whose downstream sync failed in an earlier run has been
\* retried: the downstream manager lists the moved stream on exactly the
\* channels local persistence attaches it to.
C10_FailedMovesRetried ==
    (kw_pc = "done" /\ ~kw_run_failed) =>
        \A m \in kw_failed_moves :
            \A c \in KwChannels :
                (m.stream \in SeqRange(d_streams[c]))
                    <=> (m.stream \in AttachedTo(kw_rows, c))

(***************************************************************************)
(* Channel numbering                                                       *)
(***************************************************************************)

\* Bounds of the channel numbering model.
NumManaged == 3
MaxNumber == 6
MaxExternals == 2

\* settings.channel_range_start and the MANUAL group's channel_start_number
ChannelRangeStart == 1
ChannelStartNumber == 3

Managed == 1..NumManaged
Numbers == ChannelRangeStart..MaxNumber
NumberingModes == {"strict_block", "strict_compact"}

\* event_epg_groups.channel_assignment_mode of the channel's group
AssignmentMode(c) == IF c % 2 = 1 THEN "auto" ELSE "manual"

ActiveManaged(nums, del) == { c \in Managed : nums[c] # 0 /\ ~del[c] }

\* SELECT channel_number FROM managed_channels WHERE deleted_at IS NULL
TeamarrNumbers(nums, del) == { nums[c] : c \in ActiveManaged(nums, del) }

\* external = dispatcharr_numbers - teamarr_numbers
ComputeExternalOccupied(dn, nums, del) == dn \ TeamarrNumbers(nums, del)

MinOf(S) == CHOOSE x \in S : \A y \in S : x <= y

\* The first number from start on that is not taken; 0 when the range is full.
FirstFree(start, taken) ==
    LET free == { n \in start..MaxNumber : n \notin taken }
    IN IF free = {} THEN 0 ELSE MinOf(free)

\* get_next_channel_number(conn, group_id, external_occupied): MANUAL groups
\* count from channel_start_number, AUTO groups from the start of their block.
GetNextChannelNumber(nums, del, mode, ext) ==
    FirstFree(IF mode = "manual" THEN ChannelStartNumber ELSE ChannelRangeStart,
              TeamarrNumbers(nums, del) \union ext)

\* get_next_compact_channel_number(conn, external_occupied)
GetNextCompactChannelNumber(nums, del, ext) ==
    FirstFree(ChannelRangeStart, TeamarrNumbers(nums, del) \union ext)

AutoChannels(nums, del) ==
    { c \in ActiveManaged(nums, del) : AssignmentMode(c) = "auto" }

RECURSIVE AssignFrom(_, _, _, _)
AssignFrom(ids, cursor, taken, nums) ==
    IF ids = {} THEN nums
    ELSE LET c == MinOf(ids)
             n == FirstFree(cursor, taken)
         IN IF n = 0 THEN nums
            ELSE AssignFrom(ids \ {c}, n + 1, taken, [nums EXCEPT ![c] = n])

\* reassign_channels_globally(conn, external_occupied): the AUTO channels in
\* sort order get contiguous numbers from channel_range_start, skipping
\* external_occupied; None is the empty set.
ReassignChannelsGlobally(nums, del, ext) ==
    LET auto == AutoChannels(nums, del)
        others == { nums[c] : c \in ActiveManaged(nums, del) \ auto }
    IN AssignFrom(auto, ChannelRangeStart, others \union ext, nums)

NumInit ==
    /\ managed_number = [c \in Managed |-> 0]
    /\ managed_deleted = [c \in Managed |-> FALSE]
    /\ numbering_mode \in NumberingModes
    /\ dispatcharr_numbers \in { E \in SUBSET Numbers : Cardinality(E) <= MaxExternals }
    /\ external_occupied = dispatcharr_numbers
    /\ last_assignment = [assigned |-> {}, external |-> {}, used |-> {}]

\* Start of a generation run: compute_external_occupied, once.
NumStartRun ==
    /\ external_occupied' = ComputeExternalOccupied(dispatcharr_numbers,
                                                    managed_number, managed_deleted)
    /\ UNCHANGED <<managed_number, managed_deleted, numbering_mode,
                   dispatcharr_numbers, last_assignment>>
    /\ UNCHANGED numOthers

\* A channel is created during the run with the next number of its group
\* and pushed to the downstream manager.
NumCreateChannel ==
    \E c \in Managed :
        /\ managed_number[c] = 0
        /\ LET n == IF AssignmentMode(c) = "auto" /\ numbering_mode = "strict_compact"
                      THEN GetNextCompactChannelNumber(managed_number, managed_deleted,
                                                       external_occupied)
                      ELSE GetNextChannelNumber(managed_number, managed_deleted,
                                                AssignmentMode(c), external_occupied)
           IN /\ n # 0
              /\ managed_number' = [managed_number EXCEPT ![c] = n]
              /\ dispatcharr_numbers' = dispatcharr_numbers \union {n}
              /\ last_assignment' =
                    [assigned |-> {n}, external |-> external_occupied,
                     used |-> TeamarrNumbers(managed_number, managed_deleted)]
        /\ UNCHANGED <<managed_deleted, numbering_mode, external_occupied>>
        /\ UNCHANGED numOthers

\* POST /settings/channel-numbering/reassign-globally:
\* reassign_channels_globally(conn) and commit, with no external_occupied.
NumRouteReassignGlobally ==
    /\ AutoChannels(managed_number, managed_deleted) # {}
    /\ managed_number' = ReassignChannelsGlobally(managed_number, managed_deleted, {})
    /\ last_assignment' =
          [assigned |-> { managed_number'[c] :
                            c \in AutoChannels(managed_number, managed_deleted) },
           external |-> ComputeExternalOccupied(dispatcharr_numbers,
                                                managed_number, managed_deleted),
           used |-> { managed_number[c] :
                        c \in ActiveManaged(managed_number, managed_deleted)
                              \ AutoChannels(managed_number, managed_deleted) }]
    /\ UNCHANGED <<managed_deleted, numbering_mode, dispatcharr_numbers,
                   external_occupied>>
    /\ UNCHANGED numOthers

\* A channel that Teamarr does not manage appears in the downstream manager.
NumExternalChannel ==
    \E n \in Numbers \ dispatcharr_numbers :
        /\ Cardinality(ComputeExternalOccupied(dispatcharr_numbers, managed_number,
                                               managed_deleted)) < MaxExternals
        /\ dispatcharr_numbers' = dispatcharr_numbers \union {n}
        /\ UNCHANGED <<managed_number, managed_deleted, numbering_mode,
                       external_occupied, last_assignment>>
        /\ UNCHANGED numOthers

\* A managed channel is soft-deleted; the downstream manager drops it or
\* keeps it as an orphan.
NumDeleteChannel ==
    \E c \in ActiveManaged(managed_number, managed_deleted) :
        /\ managed_deleted' = [managed_deleted EXCEPT ![c] = TRUE]
        /\ \/ dispatcharr_numbers' = dispatcharr_numbers \ {managed_number[c]}
           \/ /\ Cardinality(ComputeExternalOccupied(dispatcharr_numbers,
                      managed_number, managed_deleted)) < MaxExternals
              /\ UNCHANGED dispatcharr_numbers
        /\ UNCHANGED <<managed_number, numbering_mode, external_occupied,
                       last_assignment>>
        /\ UNCHANGED numOthers

NumNext ==
    \/ NumStartRun
    \/ NumCreateChannel
    \/ NumRouteReassignGlobally
    \/ NumExternalChannel
    \/ NumDeleteChannel

InitNumbering == NumInit /\ OrdParked /\ KwParked /\ TlParked /\ RlParked /\ SvcParked /\ EpgParked /\ RqParked /\ EoParked /\ RsParked /\ DsParked /\ RgParked /\ ImParked /\ LgParked /\ GzParked /\ FcParked /\ LcParked /\ CpParked /\ RiParked /\ TmParked /\ TsParked /\ WrParked /\ RfParked

SpecNumbering == InitNumbering /\ [][NumNext]_vars

\* C2: the numbers returned by the last assignment (next number of a MANUAL
\* or AUTO group, strict_compact, global reassignment) were, when it ran,
\* neither in external_occupied nor used by another active channel.
C2_AssignedNumbersFree ==
    last_assignment.assigned
        \intersect (last_assignment.external \union last_assignment.used) = {}

(***************************************************************************)
(* Per-team timeline: games, filler, combined output                       *)
(***************************************************************************)

\* Bounds of the timeline model.  Time is counted in units from midnight of
\* the first day of the EPG window; UnitsPerBlock units make a 6-hour block.
UnitsPerBlock == 2
MaxDays == 2
MaxGames == 2
MaxDuration == 2

\* time_blocks = [0, 6, 12, 18]
BlocksPerDay == 4

DayLen == BlocksPerDay * UnitsPerBlock

DateOf(t) == t \div DayLen

\* _get_next_time_block: the first block boundary after dt
GetNextTimeBlock(dt) == ((dt \div UnitsPerBlock) + 1) * UnitsPerBlock

\* _get_game_duration
GetGameDuration(tm) == tm.game_duration

\* _process_event: the game's programme, end = start + duration
ProcessEvent(start, tm) ==
    [start_datetime |-> start, end_datetime |-> start + GetGameDuration(tm),
     kind |-> "game"]

\* The events in the order of result.sort(key=date)
RECURSIVE SortedStarts(_)
SortedStarts(S) ==
    IF S = {} THEN <<>> ELSE <<MinOf(S)>> \o SortedStarts(S \ {MinOf(S)})

\* _create_filler_chunks: split [start_dt, end_dt) at the block boundaries
RECURSIVE CreateFillerChunks(_, _, _)
CreateFillerChunks(start_dt, end_dt, filler_type) ==
    IF start_dt < end_dt
      THEN LET next_block == GetNextTimeBlock(start_dt)
               chunk_end == IF next_block < end_dt THEN next_block ELSE end_dt
           IN <<[start_datetime |-> start_dt, end_datetime |-> chunk_end,
                 kind |-> filler_type]>>
              \o CreateFillerChunks(chunk_end, end_dt, filler_type)
      ELSE <<>>

\* game_schedule[date]: the start times of the games of that date
GamesOn(games, d) == { g \in games : DateOf(g) = d }

\* Previous day's last game ends after day_start.
PrevGameCrossed(games, tm, d, day_start) ==
    /\ GamesOn(games, d - 1) # {}
    /\ MaxOf(GamesOn(games, d - 1)) + GetGameDuration(tm) > day_start

\* PREGAME branch of a day with games.
PregameEntries(games, tm, d, day_start) ==
    LET first_game_start == MinOf(GamesOn(games, d))
    IN IF /\ tm.pregame_enabled
          /\ ~PrevGameCrossed(games, tm, d, day_start)
          /\ day_start < first_game_start
         THEN CreateFillerChunks(day_start, first_game_start, "pregame")
         ELSE <<>>

\* POSTGAME branch with the crossover mode ignored.
PostgameEntriesAlwaysPostgame(games, tm, mode, d) ==
    LET day_end == (d + 1) * DayLen
        last_game_end == MaxOf(GamesOn(games, d)) + GetGameDuration(tm)
        next_day_end == day_end + DayLen
    IN IF ~tm.postgame_enabled THEN <<>>
       ELSE IF last_game_end > day_end
         THEN IF GamesOn(games, d + 1) # {}
                THEN IF last_game_end < MinOf(GamesOn(games, d + 1))
                       THEN CreateFillerChunks(last_game_end,
                                MinOf(GamesOn(games, d + 1)), "pregame")
                       ELSE <<>>
                ELSE CreateFillerChunks(last_game_end, next_day_end, "postgame")
         ELSE CreateFillerChunks(last_game_end, day_end, "postgame")

\* POSTGAME branch of a day with games.
PostgameEntries(games, tm, mode, d) ==
    LET day_end == (d + 1) * DayLen
        last_game_end == MaxOf(GamesOn(games, d)) + GetGameDuration(tm)
        next_day_end == day_end + DayLen
    IN IF ~tm.postgame_enabled THEN <<>>
       ELSE IF last_game_end > day_end
         THEN IF GamesOn(games, d + 1) # {}
                THEN IF last_game_end < MinOf(GamesOn(games, d + 1))
                       THEN CreateFillerChunks(last_game_end,
                                MinOf(GamesOn(games, d + 1)), "pregame")
                       ELSE <<>>
                ELSE IF mode = "postgame"
                       THEN CreateFillerChunks(last_game_end, next_day_end, "postgame")
                       ELSE IF mode = "idle" /\ tm.idle_enabled
                              THEN CreateFillerChunks(last_game_end, next_day_end, "idle")
                              ELSE <<>>
         ELSE CreateFillerChunks(last_game_end, day_end, "postgame")

\* IDLE branch of a day without games.
IdleEntries(games, tm, d, day_start) ==
    IF ~PrevGameCrossed(games, tm, d, day_start) /\ tm.idle_enabled
      THEN CreateFillerChunks(day_start, (d + 1) * DayLen, "idle")
      ELSE <<>>

\* One pass of the loop over the days of the window in
\* _generate_filler_entries.
FillerForDay(games, tm, mode, d, first_day_start) ==
    LET day_start == IF d = DateOf(first_day_start) THEN first_day_start
                                                     ELSE d * DayLen
    IN IF GamesOn(games, d) # {}
         THEN PregameEntries(games, tm, d, day_start)
              \o PostgameEntries(games, tm, mode, d)
         ELSE IdleEntries(games, tm, d, day_start)

\* list.sort(key=start_datetime): stable
RECURSIVE InsertByStart(_, _)
InsertByStart(sorted, x) ==
    IF sorted = <<>> THEN <<x>>
    ELSE IF sorted[Len(sorted)].start_datetime <= x.start_datetime
           THEN Append(sorted, x)
           ELSE Append(InsertByStart(SubSeq(sorted, 1, Len(sorted) - 1), x),
                       sorted[Len(sorted)])

RECURSIVE SortByStart(_)
SortByStart(q) ==
    IF q = <<>> THEN <<>>
    ELSE InsertByStart(SortByStart(SubSeq(q, 1, Len(q) - 1)), q[Len(q)])

Teams ==
    [pregame_enabled : BOOLEAN, postgame_enabled : BOOLEAN,
     idle_enabled : BOOLEAN, game_duration : 1..MaxDuration]

TlInit ==
    /\ team \in Teams
    /\ midnight_mode \in {"idle", "postgame"}
    /\ days_ahead \in 1..MaxDays
    /\ epg_start_datetime \in 0..(DayLen - 1)
    /\ events \in { G \in SUBSET (0..(days_ahead * DayLen - 1)) :
                      Cardinality(G) <= MaxGames }
    /\ processed_events = <<>>
    /\ filler_entries = <<>>
    /\ current_date = 0
    /\ combined_events = <<>>
    /\ tl_pc = "events"

tlInputs == <<team, midnight_mode, days_ahead, epg_start_datetime, events>>

\* for event in events: processed_events.append(_process_event(...))
TlProcessEvents ==
    /\ tl_pc = "events"
    /\ processed_events' = [i \in 1..Cardinality(events) |->
                               ProcessEvent(SortedStarts(events)[i], team)]
    /\ current_date' = DateOf(epg_start_datetime)
    /\ tl_pc' = "filler"
    /\ UNCHANGED <<tlInputs, filler_entries, combined_events>>
    /\ UNCHANGED tlOthers

\* while current_date <= end_date: one day of _generate_filler_entries
TlFillerDay ==
    /\ tl_pc = "filler"
    /\ current_date <= DateOf(epg_start_datetime) + days_ahead - 1
    /\ filler_entries' = filler_entries \o
          FillerForDay(events, team, midnight_mode, current_date,
                       epg_start_datetime)
    /\ current_date' = current_date + 1
    /\ UNCHANGED <<tlInputs, processed_events, combined_events, tl_pc>>
    /\ UNCHANGED tlOthers

\* combined_events = processed_events + filler_entries, sorted by start
TlCombine ==
    /\ tl_pc = "filler"
    /\ current_date > DateOf(epg_start_datetime) + days_ahead - 1
    /\ combined_events' = SortByStart(processed_events \o filler_entries)
    /\ tl_pc' = "done"
    /\ UNCHANGED <<tlInputs, processed_events, filler_entries, current_date>>
    /\ UNCHANGED tlOthers

TlNext ==
    \/ TlProcessEvents
    \/ TlFillerDay
    \/ TlCombine

InitTimeline == TlInit /\ OrdParked /\ KwParked /\ NumParked /\ RlParked /\ SvcParked /\ EpgParked /\ RqParked /\ EoParked /\ RsParked /\ DsParked /\ RgParked /\ ImParked /\ LgParked /\ GzParked /\ FcParked /\ LcParked /\ CpParked /\ RiParked /\ TmParked /\ TsParked /\ WrParked /\ RfParked

SpecTimeline == InitTimeline /\ [][TlNext]_vars

\* C3: in the team's output sequence the programmes are in non-decreasing
\* start order and no programme starts before the previous one ends.
C3_TimelineMonotonic ==
    tl_pc = "done" =>
        \A i \in 1..(Len(combined_events) - 1) :
            /\ combined_events[i].start_datetime
                   <= combined_events[i + 1].start_datetime
            /\ combined_events[i].end_datetime
                   <= combined_events[i + 1].start_datetime

\* The lookback of _calculate_epg_start_time: 6 hours, one time block.
LookbackHours == UnitsPerBlock

\* Midnight after the final day of the window.
WindowEnd == (DateOf(epg_start_datetime) + days_ahead) * DayLen

\* C13: no programme of the team's output, game or filler, is dated
\* (starts) before the EPG start minus the lookback or at or after the EPG
\* start plus days_ahead days.
C13_ProgrammesInsideWindow ==
    tl_pc = "done" =>
        \A i \in 1..Len(combined_events) :
            /\ epg_start_datetime - LookbackHours <= combined_events[i].start_datetime
            /\ combined_events[i].start_datetime
                   < epg_start_datetime + days_ahead * DayLen

\* The unit of time [t, t + 1) lies inside the programme.
Covers(programme, t) ==
    programme.start_datetime <= t /\ t < programme.end_datetime

\* C14: with pregame, postgame and idle filler enabled, every unit of time
\* from the EPG start to midnight after the final day lies inside a game or
\* inside a filler programme.
C14_FillerCoversGaps ==
    (/\ tl_pc = "done"
     /\ team.pregame_enabled /\ team.postgame_enabled /\ team.idle_enabled) =>
        \A t \in epg_start_datetime..(WindowEnd - 1) :
            \E i \in 1..Len(combined_events) : Covers(combined_events[i], t)

\* The days of the window whose last game ends after midnight while the
\* next day has no game.
CrossoverDays ==
    { d \in DateOf(epg_start_datetime)..(DateOf(epg_start_datetime) + days_ahead - 1) :
        /\ GamesOn(events, d) # {}
        /\ MaxOf(GamesOn(events, d)) + GetGameDuration(team) > (d + 1) * DayLen
        /\ GamesOn(events, d + 1) = {} }

\* The filler programmes that lie between the end of day d's last game and
\* the end of the next day.
FillerAfterCrossover(d) ==
    { i \in 1..Len(filler_entries) :
        /\ filler_entries[i].start_datetime
               >= MaxOf(GamesOn(events, d)) + GetGameDuration(team)
        /\ filler_entries[i].start_datetime < (d + 2) * DayLen }

\* C15: when the last game of a day ends after midnight and the next day
\* has no game, every filler programme from that game's end to the end of
\* the next day has the type named by midnight_crossover_mode.
C15_CrossoverObeysMode ==
    tl_pc = "done" =>
        \A d \in CrossoverDays :
            \A i \in FillerAfterCrossover(d) :
                filler_entries[i].kind = midnight_mode

\* A game crossed midnight into an empty day under mode "idle" and filler
\* starts at its end.
C15_Witness ==
    /\ tl_pc = "done"
    /\ midnight_mode = "idle"
    /\ \E d \in CrossoverDays :
          \E i \in FillerAfterCrossover(d) :
              /\ filler_entries[i].start_datetime
                     = MaxOf(GamesOn(events, d)) + GetGameDuration(team)
              /\ filler_entries[i].kind = "idle"

\* The days of the window after the first.
LaterDays ==
    (DateOf(epg_start_datetime) + 1)..(DateOf(epg_start_datetime) + days_ahead - 1)

\* The day's pass would create filler starting at midnight if nothing were
\* suppressed: pregame before a first game that starts after midnight, or
\* idle on a day without games.
FillerDueAtMidnight(d) ==
    IF GamesOn(events, d) # {}
      THEN team.pregame_enabled /\ d * DayLen < MinOf(GamesOn(events, d))
      ELSE team.idle_enabled

\* skip_pregame / skip_idle of the day's pass
SuppressedAtMidnight(d) == PrevGameCrossed(events, team, d, d * DayLen)

\* A filler programme created by the previous day's pass ends after the
\* day's midnight.
PrevFillerPastMidnight(d) ==
    LET prev == FillerForDay(events, team, midnight_mode, d - 1, epg_start_datetime)
    IN \E i \in 1..Len(prev) : prev[i].end_datetime > d * DayLen

\* C30: on every later day of the window that is due filler from midnight,
\* that filler is suppressed exactly if a filler programme of the previous
\* day's pass extends past the day's midnight; and no unit of time lies
\* inside two filler programmes.
C30_MidnightSuppression ==
    tl_pc = "done" =>
        /\ \A d \in LaterDays :
              FillerDueAtMidnight(d) =>
                  (SuppressedAtMidnight(d) <=> PrevFillerPastMidnight(d))
        /\ \A i, j \in 1..Len(filler_entries) :
              \A t \in 0..((DateOf(epg_start_datetime) + days_ahead + 1) * DayLen) :
                  (Covers(filler_entries[i], t) /\ Covers(filler_entries[j], t)) => i = j


(***************************************************************************)
(* RateLimiter                                                             *)
(***************************************************************************)

\* Bounds of the rate limiter model.  The clock counts ticks of 1/rate
\* seconds, so one token is replenished per tick.
NumCallers == 2
BucketSize == 2
MaxTime == 3

\* self._rate, in tokens per tick
Rate == 1

Callers == 1..NumCallers
Ticks == 0..MaxTime

\* min(bucket_size, tokens + elapsed * rate)
Replenish(tk, elapsed) ==
    IF tk + elapsed * Rate < BucketSize THEN tk + elapsed * Rate ELSE BucketSize

\* wait_time = (1.0 - tokens) / rate, for tokens < 1
WaitTime(tk) == (1 - tk) \div Rate

RlInit ==
    /\ now = 0
    /\ tokens = BucketSize
    /\ last_update = 0
    /\ rl_pc = [c \in Callers |-> "idle"]
    /\ wake_at = [c \in Callers |-> 0]
    /\ returned = [t \in Ticks |-> 0]

\* acquire() with a token in the bucket: take it and return.
RlAcquireToken ==
    \E c \in Callers :
        /\ rl_pc[c] = "idle"
        /\ Replenish(tokens, now - last_update) >= 1
        /\ tokens' = Replenish(tokens, now - last_update) - 1
        /\ last_update' = now
        /\ returned' = [returned EXCEPT ![now] = @ + 1]
        /\ UNCHANGED <<now, rl_pc, wake_at>>
        /\ UNCHANGED rlOthers

\* acquire() with less than one token: empty the bucket, leave the lock and
\* sleep for wait_time.
RlAcquireWait ==
    \E c \in Callers :
        /\ rl_pc[c] = "idle"
        /\ Replenish(tokens, now - last_update) < 1
        /\ wake_at' = [wake_at EXCEPT ![c] =
                          now + WaitTime(Replenish(tokens, now - last_update))]
        /\ tokens' = 0
        /\ last_update' = now
        /\ rl_pc' = [rl_pc EXCEPT ![c] = "sleeping"]
        /\ UNCHANGED <<now, returned>>
        /\ UNCHANGED rlOthers

\* time.sleep(wait_time) ends and acquire() returns.
RlWake ==
    \E c \in Callers :
        /\ rl_pc[c] = "sleeping"
        /\ wake_at[c] <= now
        /\ rl_pc' = [rl_pc EXCEPT ![c] = "idle"]
        /\ returned' = [returned EXCEPT ![now] = @ + 1]
        /\ UNCHANGED <<now, tokens, last_update, wake_at>>
        /\ UNCHANGED rlOthers

\* The clock advances once every sleeper that is due has returned.
RlTick ==
    /\ now < MaxTime
    /\ \A c \in Callers : rl_pc[c] = "sleeping" => wake_at[c] > now
    /\ now' = now + 1
    /\ UNCHANGED <<tokens, last_update, rl_pc, wake_at, returned>>
    /\ UNCHANGED rlOthers

RlNext ==
    \/ RlAcquireToken
    \/ RlAcquireWait
    \/ RlWake
    \/ RlTick

InitRateLimiter == RlInit /\ OrdParked /\ KwParked /\ NumParked /\ TlParked /\ SvcParked /\ EpgParked /\ RqParked /\ EoParked /\ RsParked /\ DsParked /\ RgParked /\ ImParked /\ LgParked /\ GzParked /\ FcParked /\ LcParked /\ CpParked /\ RiParked /\ TmParked /\ TsParked /\ WrParked /\ RfParked

SpecRateLimiter == InitRateLimiter /\ [][RlNext]_vars

RECURSIVE ReturnedIn(_, _)
ReturnedIn(a, b) == IF a > b THEN 0 ELSE returned[a] + ReturnedIn(a + 1, b)

\* C4: in every window of ticks a..b the number of acquire() calls that
\* returned is at most burst_size + rate * (b - a).
C4_TokenBucketBound ==
    \A a \in Ticks : \A b \in a..MaxTime :
        ReturnedIn(a, b) <= BucketSize + Rate * (b - a)

(***************************************************************************)
(* ProviderRegistry and SportsDataService                                  *)
(***************************************************************************)

\* Bounds of the service model.
NumProviders == 3
MaxPriority == 2
MaxReads == 2

Providers == 1..NumProviders

\* ProviderConfig
ProviderConfigs ==
    [name : Providers, enabled : BOOLEAN, priority : 0..MaxPriority]

\* sorted(..., key=lambda c: c.priority): stable
RECURSIVE InsertByPriority(_, _)
InsertByPriority(sorted, c) ==
    IF sorted = <<>> THEN <<c>>
    ELSE IF sorted[Len(sorted)].priority <= c.priority
           THEN Append(sorted, c)
           ELSE Append(InsertByPriority(SubSeq(sorted, 1, Len(sorted) - 1), c),
                       sorted[Len(sorted)])

RECURSIVE SortByPriority(_)
SortByPriority(q) ==
    IF q = <<>> THEN <<>>
    ELSE InsertByPriority(SortByPriority(SubSeq(q, 1, Len(q) - 1)), q[Len(q)])

\* The enabled providers in registration order.
GetAllUnsorted(reg) ==
    LET enabled == SelectSeq(reg, LAMBDA c : c.enabled)
    IN [i \in 1..Len(enabled) |-> enabled[i].name]

\* ProviderRegistry.get_all(): the enabled providers, sorted by priority
GetAll(reg) ==
    LET configs == SortByPriority(SelectSeq(reg, LAMBDA c : c.enabled))
    IN [i \in 1..Len(configs) |-> configs[i].name]

\* cls._providers[name] = ProviderConfig(...): a new name goes to the end,
\* a registered name keeps its place.
Register(reg, c) ==
    IF \E i \in DOMAIN reg : reg[i].name = c.name
      THEN [i \in DOMAIN reg |-> IF reg[i].name = c.name THEN c ELSE reg[i]]
      ELSE Append(reg, c)

\* A cache entry: none, a list of event dicts, or a payload written in a
\* shape dict_to_event does not accept; expired once its TTL has passed.
CacheAbsent == [kind |-> "absent", event |-> 0, expired |-> FALSE]

StaleFormatEntry == [kind |-> "stale_format", event |-> 0, expired |-> FALSE]

\* The cache's store cannot be read or written.
CacheUnavailable == [kind |-> "unavailable", event |-> 0, expired |-> FALSE]

\* [event_to_dict(e) for e in events] (teamarr.database.provider_cache,
\* after its contract: the canonical dict shape of the events)
EventToDict(found) == [kind |-> "entry", event |-> found, expired |-> FALSE]

\* [dict_to_event(e) for e in cached]
DictToEvent(entry) == entry.event

\* A read without the except clause around dict_to_event.
DeserializationNeverCaught(entry) == FALSE

\* dict_to_event raises KeyError / TypeError
DeserializationFails(entry) == entry.kind = "stale_format"

\* A cache whose get never returns an entry.
CacheGetNeverHits(entry) == CacheAbsent

\* PersistentTTLCache.get (teamarr.utilities.cache, after its contract):
\* absent for a missing and for an expired entry, and when the store is
\* unavailable
CacheGet(entry) ==
    IF entry.expired \/ entry.kind = "unavailable" THEN CacheAbsent ELSE entry

\* PersistentTTLCache.set: overwrites; nothing is kept by an unavailable store
CacheSet(entry, value) ==
    IF entry.kind = "unavailable" THEN entry ELSE value

\* The enabled detection_keywords rows of a category, ORDER BY priority DESC
DetectionRows ==
    {[keyword |-> 1, priority |-> 2, enabled |-> TRUE],
     [keyword |-> 2, priority |-> 1, enabled |-> FALSE]}

\* The database as _load_user_keywords meets it: get_db() or the query
\* raises, or the table holds some rows.
DetectionDbs == [up : BOOLEAN, rows : SUBSET DetectionRows]

\* _load_user_keywords(category): the enabled rows, [] on any exception
LoadUserKeywords(db) ==
    IF ~db.up
    THEN <<>>
    ELSE LET enabled == { r \in db.rows : r.enabled }
         IN  IF enabled = {} THEN <<>> ELSE <<(CHOOSE r \in enabled : TRUE).keyword>>

SvcInit ==
    /\ reg_providers = <<>>
    /\ svc_providers = <<>>
    /\ supports \in [Providers -> BOOLEAN]
    /\ svc_cache \in {CacheAbsent, StaleFormatEntry}
    /\ cached = CacheAbsent
    /\ user_keywords = [loaded |-> FALSE, failed |-> FALSE, rows |-> <<>>]
    /\ svc_pc = "import"
    /\ svc_idx = 0
    /\ consulted = <<>>
    /\ svc_result = 0
    /\ svc_reads = 0

\* ProviderRegistry.register, at import of teamarr.providers: names are
\* registered in the order 1, 2, ...
SvcRegister ==
    /\ svc_pc = "import"
    /\ \E c \in ProviderConfigs :
        /\ c.name <= Len(reg_providers) + 1
        /\ reg_providers' = Register(reg_providers, c)
    /\ UNCHANGED <<svc_providers, supports, svc_cache, cached, user_keywords, svc_pc, svc_idx,
                   consulted, svc_result, svc_reads>>
    /\ UNCHANGED svcOthers

\* create_default_service(): SportsDataService(providers=get_all())
SvcCreateDefaultService ==
    /\ svc_pc = "import"
    /\ svc_providers' = GetAll(reg_providers)
    /\ svc_pc' = "idle"
    /\ UNCHANGED <<reg_providers, supports, svc_cache, cached, user_keywords, svc_idx,
                   consulted, svc_result, svc_reads>>
    /\ UNCHANGED svcOthers

\* The TTL of the entry passes.
SvcEntryExpires ==
    /\ svc_pc \in {"idle", "returned"}
    /\ svc_cache.kind \in {"entry", "stale_format"}
    /\ ~svc_cache.expired
    /\ svc_cache' = [svc_cache EXCEPT !.expired = TRUE]
    /\ UNCHANGED <<reg_providers, svc_providers, supports, cached, user_keywords, svc_pc, svc_idx,
                   consulted, svc_result, svc_reads>>
    /\ UNCHANGED svcOthers

\* The cache's store becomes unavailable.
SvcCacheUnavailable ==
    /\ svc_pc \in {"idle", "returned"}
    /\ svc_cache.kind # "unavailable"
    /\ svc_cache' = CacheUnavailable
    /\ UNCHANGED <<reg_providers, svc_providers, supports, cached, user_keywords, svc_pc,
                   svc_idx, consulted, svc_result, svc_reads>>
    /\ UNCHANGED svcOthers

\* DetectionKeywordService loads a category's user keywords, once, on first
\* access.
SvcLoadUserKeywords ==
    /\ svc_pc \in {"idle", "returned"}
    /\ ~user_keywords.loaded
    /\ \E db \in DetectionDbs :
          user_keywords' = [loaded |-> TRUE, failed |-> ~db.up, rows |-> LoadUserKeywords(db)]
    /\ UNCHANGED <<reg_providers, svc_providers, supports, svc_cache, cached, svc_pc,
                   svc_idx, consulted, svc_result, svc_reads>>
    /\ UNCHANGED svcOthers

\* get_events: the cache returns an entry and it deserializes.
SvcCacheHit ==
    /\ svc_pc \in {"idle", "returned"}
    /\ svc_reads < MaxReads
    /\ CacheGet(svc_cache).kind # "absent"
    /\ ~DeserializationFails(CacheGet(svc_cache))
    /\ cached' = CacheGet(svc_cache)
    /\ svc_result' = DictToEvent(CacheGet(svc_cache))
    /\ svc_pc' = "returned"
    /\ svc_idx' = 0
    /\ consulted' = <<>>
    /\ svc_reads' = svc_reads + 1
    /\ UNCHANGED <<reg_providers, svc_providers, supports, svc_cache, user_keywords>>
    /\ UNCHANGED svcOthers

\* get_events: the cache returns None, or its entry fails to deserialize;
\* the read goes on to the providers.
SvcCacheMiss ==
    /\ svc_pc \in {"idle", "returned"}
    /\ svc_reads < MaxReads
    /\ \/ CacheGet(svc_cache).kind = "absent"
       \/ DeserializationFails(CacheGet(svc_cache))
    /\ cached' = CacheGet(svc_cache)
    /\ svc_pc' = "loop"
    /\ svc_idx' = 1
    /\ consulted' = <<>>
    /\ svc_reads' = svc_reads + 1
    /\ UNCHANGED <<reg_providers, svc_providers, supports, svc_cache, svc_result, user_keywords>>
    /\ UNCHANGED svcOthers

\* for provider in self._providers: supports_league(league) is False
SvcSkipProvider ==
    /\ svc_pc = "loop"
    /\ svc_idx <= Len(svc_providers)
    /\ ~supports[svc_providers[svc_idx]]
    /\ svc_idx' = svc_idx + 1
    /\ UNCHANGED <<reg_providers, svc_providers, supports, svc_cache, cached, user_keywords, svc_pc,
                   consulted, svc_result, svc_reads>>
    /\ UNCHANGED svcOthers

\* provider.get_events(league, target_date): a non-empty result is cached
\* and returned, an empty one moves the loop on.
SvcAskProvider ==
    /\ svc_pc = "loop"
    /\ svc_idx <= Len(svc_providers)
    /\ supports[svc_providers[svc_idx]]
    /\ \E found \in {0, svc_providers[svc_idx]} :
        /\ consulted' = Append(consulted,
                               [provider |-> svc_providers[svc_idx],
                                events |-> found])
        /\ IF found # 0
             THEN /\ svc_cache' = CacheSet(svc_cache, EventToDict(found))
                  /\ svc_result' = found
                  /\ svc_pc' = "returned"
                  /\ UNCHANGED svc_idx
             ELSE /\ svc_idx' = svc_idx + 1
                  /\ UNCHANGED <<svc_cache, svc_result, svc_pc>>
    /\ UNCHANGED <<reg_providers, svc_providers, supports, cached, user_keywords, svc_reads>>
    /\ UNCHANGED svcOthers

\* return []
SvcReturnEmpty ==
    /\ svc_pc = "loop"
    /\ svc_idx > Len(svc_providers)
    /\ svc_result' = 0
    /\ svc_pc' = "returned"
    /\ UNCHANGED <<reg_providers, svc_providers, supports, svc_cache, cached, user_keywords, svc_idx,
                   consulted, svc_reads>>
    /\ UNCHANGED svcOthers

SvcNext ==
    \/ SvcRegister
    \/ SvcCreateDefaultService
    \/ SvcEntryExpires
    \/ SvcCacheUnavailable
    \/ SvcLoadUserKeywords
    \/ SvcCacheHit
    \/ SvcCacheMiss
    \/ SvcSkipProvider
    \/ SvcAskProvider
    \/ SvcReturnEmpty

InitService == SvcInit /\ OrdParked /\ KwParked /\ NumParked /\ TlParked /\ RlParked /\ EpgParked /\ RqParked /\ EoParked /\ RsParked /\ DsParked /\ RgParked /\ ImParked /\ LgParked /\ GzParked /\ FcParked /\ LcParked /\ CpParked /\ RiParked /\ TmParked /\ TsParked /\ WrParked /\ RfParked

SpecService == InitService /\ [][SvcNext]_vars

PriorityOf(p) ==
    reg_providers[CHOOSE i \in DOMAIN reg_providers : reg_providers[i].name = p].priority

EnabledSupporting ==
    { reg_providers[i].name : i \in { j \in DOMAIN reg_providers :
          reg_providers[j].enabled /\ supports[reg_providers[j].name] } }

\* C5: in a read that missed the cache the providers are consulted in
\* ascending priority order; a provider is consulted only after every
\* enabled provider of lower priority number that supports the league was
\* consulted and returned an empty result, and only while every provider
\* consulted so far returned an empty result; the read returns the first
\* non-empty result, and the empty list only when every enabled supporting
\* provider returned an empty result.
C5_ProvidersInPriorityOrder ==
    /\ \A i, j \in DOMAIN consulted :
          i < j => PriorityOf(consulted[i].provider)
                      <= PriorityOf(consulted[j].provider)
    /\ \A j \in DOMAIN consulted : \A p \in EnabledSupporting :
          PriorityOf(p) < PriorityOf(consulted[j].provider)
              => \E i \in 1..(j - 1) :
                    consulted[i].provider = p /\ consulted[i].events = 0
    /\ \A i \in DOMAIN consulted : i < Len(consulted) => consulted[i].events = 0
    /\ (svc_pc = "returned" /\ svc_idx # 0) =>
          IF consulted # <<>> /\ consulted[Len(consulted)].events # 0
            THEN svc_result = consulted[Len(consulted)].events
            ELSE /\ svc_result = 0
                 /\ \A p \in EnabledSupporting :
                       \E i \in DOMAIN consulted : consulted[i].provider = p

\* A read that missed the cache asked a provider registered later first,
\* got an empty result, and returned the result of a provider registered
\* earlier with a higher priority number.
C5_Witness ==
    /\ svc_pc = "returned"
    /\ svc_idx # 0
    /\ Len(consulted) >= 2
    /\ consulted[1].events = 0
    /\ consulted[Len(consulted)].events # 0
    /\ svc_result = consulted[Len(consulted)].provider
    /\ consulted[1].provider > consulted[Len(consulted)].provider
    /\ PriorityOf(consulted[1].provider)
          < PriorityOf(consulted[Len(consulted)].provider)

MaxLookups == 2

\* get_for_league over every registered provider, enabled or not.
GetForLeagueAnyRegistered(reg, supp) ==
    LET configs == SortByPriority(reg)
        supporting == SelectSeq(configs, LAMBDA c : supp[c.name])
    IN IF supporting = <<>> THEN 0 ELSE supporting[1].name

\* get_for_league: the first provider of get_all() that supports the league
GetForLeague(reg, supp) ==
    LET supporting == SelectSeq(GetAll(reg), LAMBDA p : supp[p])
    IN IF supporting = <<>> THEN 0 ELSE supporting[1]

RgInit == league_lookup = [calls |-> 0, provider |-> 0]

\* ProviderRegistry.get_for_league(league)
RgGetForLeague ==
    /\ league_lookup.calls < MaxLookups
    /\ league_lookup' = [calls |-> league_lookup.calls + 1,
                         provider |-> GetForLeague(reg_providers, supports)]
    /\ UNCHANGED rgOthers

RgNext ==
    \/ SvcRegister
    \/ RgGetForLeague

InitRegistry == SvcInit /\ RgInit /\ OrdParked /\ KwParked /\ NumParked /\ TlParked /\ RlParked /\ EpgParked /\ RqParked /\ EoParked /\ RsParked /\ DsParked /\ ImParked /\ LgParked /\ GzParked /\ FcParked /\ LcParked /\ CpParked /\ RiParked /\ TmParked /\ TsParked /\ WrParked /\ RfParked

SpecRegistry == InitRegistry /\ [][RgNext]_vars

\* C20: every call of get_for_league returns an enabled provider that
\* supports the league and whose priority number no other enabled
\* supporting provider undercuts, and returns nothing when no enabled
\* provider supports the league.
C20_GetForLeagueLowestPriority ==
    [][league_lookup'.calls = league_lookup.calls + 1 =>
          IF EnabledSupporting = {}
            THEN league_lookup'.provider = 0
            ELSE /\ league_lookup'.provider \in EnabledSupporting
                 /\ \A p \in EnabledSupporting :
                       PriorityOf(league_lookup'.provider) <= PriorityOf(p)]_vars

\* A lookup returned a provider although a disabled provider with a lower
\* priority number and an enabled one registered earlier with a higher
\* priority number support the league too.
C20_Witness ==
    /\ league_lookup.calls >= 1
    /\ league_lookup.provider \in EnabledSupporting
    /\ \E i \in DOMAIN reg_providers :
          /\ ~reg_providers[i].enabled
          /\ supports[reg_providers[i].name]
          /\ reg_providers[i].priority < PriorityOf(league_lookup.provider)
    /\ \E p \in EnabledSupporting :
          /\ p < league_lookup.provider
          /\ PriorityOf(p) > PriorityOf(league_lookup.provider)


(***************************************************************************)
(* EPGOrchestrator.generate_epg                                            *)
(***************************************************************************)

\* Bounds of the generation model.
NumEpgTeams == 3
NumLeagues == 2
MaxCycles == 2

EpgTeams == 1..NumEpgTeams
Leagues == 1..NumLeagues

\* cache_key = f"events:{league}:{target_date}" of the team's league
CacheKeyOf(t) == ((t - 1) % NumLeagues) + 1

\* What service.get_events returns for the key.
Scoreboard(k) == <<[league |-> k]>>

\* self._scoreboard_cache[cache_key] = events
CachePut(cache, k, v) ==
    [x \in DOMAIN cache \union {k} |-> IF x = k THEN v ELSE cache[x]]

\* The programmes _process_team_schedule builds for the team from the
\* scoreboard it read.
TeamEvents(t, sb) == <<[team |-> t, scoreboard |-> sb]>>

\* return (team_id, team_events, None)
TeamResult(t, team_events) ==
    [team_id |-> t, team_events |-> team_events, error |-> "none",
     exception |-> "none"]

\* Without the except clause the future holds the exception.
ExceptPropagates(t, e) ==
    [team_id |-> t, team_events |-> <<>>, error |-> e, exception |-> e]

\* except Exception as e: return (team_id, [], str(e))
ExceptReturnsEmpty(t, e) ==
    [team_id |-> t, team_events |-> <<>>, error |-> e, exception |-> "none"]

EpgInit ==
    /\ teams_list \in SUBSET EpgTeams
    /\ epg_pc = "idle"
    /\ scoreboard_cache = <<>>
    /\ scoreboard_lock = 0
    /\ team_pc = [t \in EpgTeams |-> "none"]
    /\ team_scoreboard = [t \in EpgTeams |-> <<>>]
    /\ futures = [t \in EpgTeams |-> NoValue]
    /\ results = <<>>
    /\ all_events = <<>>
    /\ fetches = [k \in Leagues |-> 0]
    /\ epg_cycles = 0

\* generate_epg: clear the scoreboard cache, load the teams, return early
\* when there are none, else submit process_single_team for every team.
EpgGenerate ==
    /\ epg_pc \in {"idle", "complete"}
    /\ epg_cycles < MaxCycles
    /\ epg_cycles' = epg_cycles + 1
    /\ scoreboard_cache' = <<>>
    /\ fetches' = [k \in Leagues |-> 0]
    /\ results' = <<>>
    /\ futures' = [t \in EpgTeams |-> NoValue]
    /\ team_scoreboard' = [t \in EpgTeams |-> <<>>]
    /\ all_events' = <<>>
    /\ IF teams_list = {}
         THEN /\ epg_pc' = "complete"
              /\ UNCHANGED team_pc
         ELSE /\ epg_pc' = "running"
              /\ team_pc' = [t \in EpgTeams |->
                                IF t \in teams_list THEN "fast_path" ELSE "none"]
    /\ UNCHANGED <<teams_list, scoreboard_lock>>
    /\ UNCHANGED epgOthers

\* _get_events_cached, fast path: check the cache without the lock.
EpgFastPath ==
    \E t \in teams_list :
        /\ team_pc[t] = "fast_path"
        /\ IF CacheKeyOf(t) \in DOMAIN scoreboard_cache
             THEN /\ team_scoreboard' =
                        [team_scoreboard EXCEPT ![t] = scoreboard_cache[CacheKeyOf(t)]]
                  /\ team_pc' = [team_pc EXCEPT ![t] = "build"]
             ELSE /\ team_pc' = [team_pc EXCEPT ![t] = "acquire"]
                  /\ UNCHANGED team_scoreboard
        /\ UNCHANGED <<teams_list, epg_pc, scoreboard_cache, scoreboard_lock,
                       futures, results, all_events, fetches, epg_cycles>>
        /\ UNCHANGED epgOthers

\* with self._scoreboard_cache_lock:
EpgAcquireLock ==
    \E t \in teams_list :
        /\ team_pc[t] = "acquire"
        /\ scoreboard_lock = 0
        /\ scoreboard_lock' = t
        /\ team_pc' = [team_pc EXCEPT ![t] = "locked"]
        /\ UNCHANGED <<teams_list, epg_pc, scoreboard_cache, team_scoreboard,
                       futures, results, all_events, fetches, epg_cycles>>
        /\ UNCHANGED epgOthers

\* The lookup under the lock left out.
DoubleCheckSkipped(cache, k) == FALSE

\* Double-check after lock: if cache_key in self._scoreboard_cache
DoubleCheck(cache, k) == k \in DOMAIN cache

\* Under the lock: the key is there after all, or service.get_events is
\* called and its result cached; the lock is released on the way out.
EpgFetchUnderLock ==
    \E t \in teams_list :
        /\ team_pc[t] = "locked"
        /\ IF DoubleCheck(scoreboard_cache, CacheKeyOf(t))
             THEN /\ team_scoreboard' =
                        [team_scoreboard EXCEPT ![t] = scoreboard_cache[CacheKeyOf(t)]]
                  /\ UNCHANGED <<scoreboard_cache, fetches>>
             ELSE /\ scoreboard_cache' =
                        CachePut(scoreboard_cache, CacheKeyOf(t), Scoreboard(CacheKeyOf(t)))
                  /\ fetches' = [fetches EXCEPT ![CacheKeyOf(t)] = @ + 1]
                  /\ team_scoreboard' =
                        [team_scoreboard EXCEPT ![t] = Scoreboard(CacheKeyOf(t))]
        /\ scoreboard_lock' = 0
        /\ team_pc' = [team_pc EXCEPT ![t] = "build"]
        /\ UNCHANGED <<teams_list, epg_pc, futures, results, all_events, epg_cycles>>
        /\ UNCHANGED epgOthers

\* The team's pipeline raises: before the scoreboard read, in
\* service.get_events under the lock (the with statement releases it, the
\* key stays absent), or while the programmes are built.
EpgTeamRaises ==
    \E t \in teams_list :
        /\ team_pc[t] \in {"fast_path", "locked", "build"}
        /\ team_pc[t] = "locked" => CacheKeyOf(t) \notin DOMAIN scoreboard_cache
        /\ scoreboard_lock' = IF scoreboard_lock = t THEN 0 ELSE scoreboard_lock
        /\ fetches' = IF team_pc[t] = "locked"
                        THEN [fetches EXCEPT ![CacheKeyOf(t)] = @ + 1]
                        ELSE fetches
        /\ futures' = [futures EXCEPT ![t] = ExceptReturnsEmpty(t, "error")]
        /\ team_pc' = [team_pc EXCEPT ![t] = "done"]
        /\ UNCHANGED <<teams_list, epg_pc, scoreboard_cache, team_scoreboard,
                       results, all_events, epg_cycles>>
        /\ UNCHANGED epgOthers

\* _process_team_schedule returns the team's programmes.
EpgTeamReturns ==
    \E t \in teams_list :
        /\ team_pc[t] = "build"
        /\ futures' = [futures EXCEPT ![t] =
                          TeamResult(t, TeamEvents(t, team_scoreboard[t]))]
        /\ team_pc' = [team_pc EXCEPT ![t] = "done"]
        /\ UNCHANGED <<teams_list, epg_pc, scoreboard_cache, scoreboard_lock,
                       team_scoreboard, results, all_events, fetches, epg_cycles>>
        /\ UNCHANGED epgOthers

Collected == { results[i].team_id : i \in DOMAIN results }

\* for future in as_completed(futures): results.append(future.result());
\* result() re-raises the exception of a future that holds one.
EpgCollect ==
    \E t \in teams_list \ Collected :
        /\ epg_pc = "running"
        /\ team_pc[t] = "done"
        /\ IF futures[t].exception # "none"
             THEN /\ epg_pc' = "raised"
                  /\ UNCHANGED results
             ELSE /\ results' = Append(results, futures[t])
                  /\ UNCHANGED epg_pc
        /\ UNCHANGED <<teams_list, scoreboard_cache, scoreboard_lock, team_pc,
                       team_scoreboard, futures, all_events, fetches, epg_cycles>>
        /\ UNCHANGED epgOthers

\* for team_id, team_events, error in results: all_events[team_id] = team_events
EpgAggregate ==
    /\ epg_pc = "running"
    /\ Collected = teams_list
    /\ all_events' = [t \in teams_list |->
          results[CHOOSE i \in DOMAIN results : results[i].team_id = t].team_events]
    /\ epg_pc' = "complete"
    /\ UNCHANGED <<teams_list, scoreboard_cache, scoreboard_lock, team_pc,
                   team_scoreboard, futures, results, fetches, epg_cycles>>
    /\ UNCHANGED epgOthers

EpgNext ==
    \/ EpgGenerate
    \/ EpgFastPath
    \/ EpgAcquireLock
    \/ EpgFetchUnderLock
    \/ EpgTeamRaises
    \/ EpgTeamReturns
    \/ EpgCollect
    \/ EpgAggregate

InitEpg == EpgInit /\ OrdParked /\ KwParked /\ NumParked /\ TlParked /\ RlParked /\ SvcParked /\ RqParked /\ EoParked /\ RsParked /\ DsParked /\ RgParked /\ ImParked /\ LgParked /\ GzParked /\ FcParked /\ LcParked /\ CpParked /\ RiParked /\ TmParked /\ TsParked /\ WrParked /\ RfParked

SpecEpg == InitEpg /\ [][EpgNext]_vars

Raised == { t \in teams_list : futures[t] # NoValue /\ futures[t].error # "none" }

\* C6: generate_epg never ends by raising, and when the cycle completes
\* all_events has an entry for every team: the empty list for a team whose
\* pipeline raised, and for every other team the programmes built from the
\* scoreboard of its league, as in a cycle without failures.
C6_TeamFailureIsolated ==
    /\ epg_pc # "raised"
    /\ (epg_pc = "complete" /\ teams_list # {}) =>
          /\ DOMAIN all_events = teams_list
          /\ \A t \in teams_list :
                all_events[t] = IF t \in Raised
                                  THEN <<>>
                                  ELSE TeamEvents(t, Scoreboard(CacheKeyOf(t)))

\* A cycle completed in which a team raised while fetching the scoreboard
\* that another team of the same league needed, and that team has its
\* programmes.
C6_Witness ==
    /\ epg_pc = "complete"
    /\ \E t, u \in teams_list :
          /\ t # u
          /\ CacheKeyOf(t) = CacheKeyOf(u)
          /\ t \in Raised
          /\ u \notin Raised
          /\ fetches[CacheKeyOf(t)] >= 2
          /\ all_events[t] = <<>>
          /\ all_events[u] # <<>>

\* C28 as stated: in a cycle service.get_events is called at most once for
\* each key.
C28_FetchedAtMostOnce ==
    \A k \in Leagues : fetches[k] <= 1

\* C28, amended: service.get_events is called for a key only by the worker
\* that holds the cache lock and only while the key is not in the cycle
\* cache; a call that returns puts the key there for the rest of the cycle.
\* So a scoreboard is fetched successfully at most once per cycle, and a
\* second call for a key follows only a call that raised.
C28_NoFetchOfCachedKey ==
    [][/\ \A k \in Leagues :
            fetches'[k] > fetches[k] =>
                /\ k \notin DOMAIN scoreboard_cache
                /\ scoreboard_lock \in { t \in teams_list : CacheKeyOf(t) = k }
                /\ \/ k \in DOMAIN scoreboard_cache'
                   \/ futures'[scoreboard_lock].error # "none"
       /\ \A k \in DOMAIN scoreboard_cache :
            epg_cycles' = epg_cycles =>
                /\ k \in DOMAIN scoreboard_cache'
                /\ scoreboard_cache'[k] = scoreboard_cache[k]]_vars

\* Two workers of one league missed the cache on the fast path together; one
\* has fetched the scoreboard in a single call and the other, still waiting
\* for the lock, will find it there.
C28_Witness ==
    \E t, u \in teams_list :
        /\ t # u
        /\ CacheKeyOf(t) = CacheKeyOf(u)
        /\ fetches[CacheKeyOf(t)] = 1
        /\ team_pc[t] = "build"
        /\ team_pc[u] = "acquire"
        /\ CacheKeyOf(t) \in DOMAIN scoreboard_cache


(***************************************************************************)
(* ESPNClient._request                                                     *)
(***************************************************************************)

MaxRetryCount == 3
MaxRetryDelay == 2
MaxRequests == 2

\* What one attempt can end in: the JSON body, a 4xx/5xx status
\* (raise_for_status), a transport failure, a TLS failure (both
\* httpx.RequestError / RuntimeError / OSError), or a body that is not JSON
\* (response.json() raises ValueError, which no except clause names).
Failures == {"http_status_error", "request_error", "ssl_error"}

\* No failure is recognised as a TLS failure.
IsSslErrorNever(e) == FALSE

\* _is_ssl_error
IsSslError(e) == e = "ssl_error"

\* _get_client: the pooled client is created on first use.
GetClient(client) == "open"

\* _reset_client: close the pooled client and forget it.
ResetClient(client) == "none"

AttemptEntry(attempt, outcome) ==
    [kind |-> "attempt", attempt |-> attempt, outcome |-> outcome]

SleepEntry(secs) == [kind |-> "sleep", secs |-> secs]

\* time.sleep(self._retry_delay * (attempt + 1))
BackoffConstant(attempt) == retry_delay

Backoff(attempt) == retry_delay * (attempt + 1)

RqInit ==
    /\ retry_count \in 0..MaxRetryCount
    /\ retry_delay \in 1..MaxRetryDelay
    /\ rq_client = "none"
    /\ rq_pc = "idle"
    /\ rq_attempt = 0
    /\ rq_log = <<>>
    /\ rq_result = "pending"
    /\ rq_requests = 0

\* A caller enters _request.
RqRequest ==
    /\ rq_pc \in {"idle", "returned", "raised"}
    /\ rq_requests < MaxRequests
    /\ rq_pc' = "loop"
    /\ rq_attempt' = 0
    /\ rq_log' = <<>>
    /\ rq_result' = "pending"
    /\ rq_requests' = rq_requests + 1
    /\ UNCHANGED <<retry_count, retry_delay, rq_client>>
    /\ UNCHANGED rqOthers

\* The attempt gets a 2xx response with a JSON body: return response.json().
RqAttemptOk ==
    /\ rq_pc = "loop"
    /\ rq_attempt < retry_count
    /\ rq_client' = GetClient(rq_client)
    /\ rq_log' = Append(rq_log, AttemptEntry(rq_attempt, "ok"))
    /\ rq_result' = "json"
    /\ rq_pc' = "returned"
    /\ UNCHANGED <<retry_count, retry_delay, rq_attempt, rq_requests>>
    /\ UNCHANGED rqOthers

\* The tail both except clauses share: sleep and continue unless this was
\* the last attempt, in which case return None.
AfterFailure(log) ==
    IF rq_attempt < retry_count - 1
    THEN /\ rq_log' = Append(log, SleepEntry(Backoff(rq_attempt)))
         /\ rq_attempt' = rq_attempt + 1
         /\ rq_pc' = "loop"
         /\ rq_result' = rq_result
    ELSE /\ rq_log' = log
         /\ rq_attempt' = rq_attempt
         /\ rq_pc' = "returned"
         /\ rq_result' = "None"

\* except httpx.HTTPStatusError
RqHttpStatusError ==
    /\ rq_pc = "loop"
    /\ rq_attempt < retry_count
    /\ rq_client' = GetClient(rq_client)
    /\ AfterFailure(Append(rq_log, AttemptEntry(rq_attempt, "http_status_error")))
    /\ UNCHANGED <<retry_count, retry_delay, rq_requests>>
    /\ UNCHANGED rqOthers

\* except (httpx.RequestError, RuntimeError, OSError): a TLS failure resets
\* the connection pool first.
RqRequestError ==
    /\ rq_pc = "loop"
    /\ rq_attempt < retry_count
    /\ \E e \in {"request_error", "ssl_error"} :
          /\ rq_client' = IF IsSslError(e) THEN ResetClient(GetClient(rq_client))
                                           ELSE GetClient(rq_client)
          /\ AfterFailure(Append(rq_log, AttemptEntry(rq_attempt, e)))
    /\ UNCHANGED <<retry_count, retry_delay, rq_requests>>
    /\ UNCHANGED rqOthers

\* A 2xx response whose body is not JSON: response.json() raises ValueError,
\* which neither except clause catches; it leaves _request.
RqDecodeError ==
    /\ rq_pc = "loop"
    /\ rq_attempt < retry_count
    /\ rq_client' = GetClient(rq_client)
    /\ rq_log' = Append(rq_log, AttemptEntry(rq_attempt, "decode_error"))
    /\ rq_result' = "raised"
    /\ rq_pc' = "raised"
    /\ UNCHANGED <<retry_count, retry_delay, rq_attempt, rq_requests>>
    /\ UNCHANGED rqOthers

\* range(self._retry_count) is empty: the return None after the loop.
RqLoopExhausted ==
    /\ rq_pc = "loop"
    /\ rq_attempt >= retry_count
    /\ rq_pc' = "returned"
    /\ rq_result' = "None"
    /\ UNCHANGED <<retry_count, retry_delay, rq_client, rq_attempt, rq_log, rq_requests>>
    /\ UNCHANGED rqOthers

RqNext ==
    \/ RqRequest
    \/ RqAttemptOk
    \/ RqHttpStatusError
    \/ RqRequestError
    \/ RqDecodeError
    \/ RqLoopExhausted

InitRequest == RqInit /\ OrdParked /\ KwParked /\ NumParked /\ TlParked /\ RlParked /\ SvcParked /\ EpgParked /\ EoParked /\ RsParked /\ DsParked /\ RgParked /\ ImParked /\ LgParked /\ GzParked /\ FcParked /\ LcParked /\ CpParked /\ RiParked /\ TmParked /\ TsParked /\ WrParked /\ RfParked

SpecRequest == InitRequest /\ [][RqNext]_vars

\* The attempts of the log, in order.
AttemptsOf(log) == SelectSeq(log, LAMBDA e : e.kind = "attempt")

MaxRawNumber == 2
MaxEoChannels == 2
MaxEoRows == 2

\* A channel_number as it is stored: NULL/None, the empty string, text that
\* is not a number, the text of an integer ("2") or of a decimal ("2.5").
RawNumbers ==
    {[kind |-> k, n |-> 0] : k \in {"none", "empty", "text"}}
        \union {[kind |-> k, n |-> n] : k \in {"int", "decimal"}, n \in 1..MaxRawNumber}

\* if ch.channel_number: None and "" are falsy.
Truthy(raw) == raw.kind \notin {"none", "empty"}

\* float(x) raises ValueError / TypeError for anything but a number's text.
FloatRaises(raw) == raw.kind \notin {"int", "decimal"}

\* int(float(x)): the integer part.
IntFloat(raw) == raw.n

\* dispatcharr_numbers, from the channel cache; empty without a manager.
EoDispatcharrNumbers(mgr, channels) ==
    IF mgr
    THEN { IntFloat(raw) : raw \in { r \in channels : Truthy(r) /\ ~FloatRaises(r) } }
    ELSE {}

\* SELECT channel_number FROM managed_channels (every row, deleted or not).
EoTeamarrNumbersAllRows(rows) ==
    { IntFloat(row.channel_number) :
        row \in { r \in rows : /\ r.channel_number.kind # "none"
                               /\ ~FloatRaises(r.channel_number) } }

\* SELECT channel_number FROM managed_channels
\*  WHERE deleted_at IS NULL AND channel_number IS NOT NULL
EoTeamarrNumbers(rows) ==
    { IntFloat(row.channel_number) :
        row \in { r \in rows : /\ ~r.deleted
                               /\ r.channel_number.kind # "none"
                               /\ ~FloatRaises(r.channel_number) } }

\* external = dispatcharr_numbers - teamarr_numbers
EoExternal(mgr, channels, rows) ==
    EoDispatcharrNumbers(mgr, channels) \ EoTeamarrNumbers(rows)

EoRowValues == [channel_number : RawNumbers, deleted : BOOLEAN]

EoInit ==
    /\ eo_manager \in BOOLEAN
    /\ eo_channels \in { S \in SUBSET RawNumbers : Cardinality(S) <= MaxEoChannels }
    /\ eo_rows \in { S \in SUBSET EoRowValues : Cardinality(S) <= MaxEoRows }
    /\ eo_pc = "ready"
    /\ eo_result = {}

\* compute_external_occupied(db_factory, channel_manager)
EoCompute ==
    /\ eo_pc = "ready"
    /\ eo_result' = EoExternal(eo_manager, eo_channels, eo_rows)
    /\ eo_pc' = "returned"
    /\ UNCHANGED <<eo_manager, eo_channels, eo_rows>>
    /\ UNCHANGED eoOthers

EoNext == EoCompute

InitExternalOccupied == EoInit /\ OrdParked /\ KwParked /\ NumParked /\ TlParked /\ RlParked /\ SvcParked /\ EpgParked /\ RqParked /\ RsParked /\ DsParked /\ RgParked /\ ImParked /\ LgParked /\ GzParked /\ FcParked /\ LcParked /\ CpParked /\ RiParked /\ TmParked /\ TsParked /\ WrParked /\ RfParked

SpecExternalOccupied == InitExternalOccupied /\ [][EoNext]_vars

\* The downstream channels hold number n: some channel's number reads as n.
HeldDownstream(n) ==
    /\ eo_manager
    /\ \E raw \in eo_channels : raw.kind \in {"int", "decimal"} /\ raw.n = n

\* An active (not deleted) managed channel has number n.
HeldByActiveManaged(n) ==
    \E row \in eo_rows :
        /\ ~row.deleted
        /\ row.channel_number.kind \in {"int", "decimal"}
        /\ row.channel_number.n = n

\* C12: the returned set holds a number exactly when a downstream channel
\* has it and no active managed channel has it; so a number whose only
\* managed channel is deleted is in the set, and without downstream
\* channels the set is empty.
C12_ExternalOccupiedExact ==
    eo_pc = "returned" =>
        /\ \A n \in 0..MaxRawNumber :
              (n \in eo_result) <=> (HeldDownstream(n) /\ ~HeldByActiveManaged(n))
        /\ eo_result \subseteq 1..MaxRawNumber
        /\ (~eo_manager \/ eo_channels = {}) => eo_result = {}

\* A number held downstream whose only managed channel is deleted was
\* returned, next to a number of an active managed channel that was not.
C12_Witness ==
    /\ eo_pc = "returned"
    /\ \E n \in 1..MaxRawNumber :
          /\ HeldDownstream(n)
          /\ \E row \in eo_rows : row.deleted /\ row.channel_number.n = n
          /\ n \in eo_result
    /\ \E n \in 1..MaxRawNumber :
          HeldDownstream(n) /\ HeldByActiveManaged(n) /\ n \notin eo_result


(***************************************************************************)
(* TemplateEngine.resolve and _build_variable_dict                         *)
(***************************************************************************)

MaxParts == 2

\* One variable of each suffix category, as _build_variable_dict lists them.
LAST_ONLY_VARS == {"final_score"}

BASE_NEXT_ONLY_VARS == {"odds_spread"}

BASE_ONLY_VARS == {"team_name"}

\* The keys _build_variables_from_game_context produces.
VariableKeys == {"opponent"} \union LAST_ONLY_VARS \union BASE_NEXT_ONLY_VARS
                    \union BASE_ONLY_VARS

\* Names a template can hold: the produced keys and one that is none.
TemplateNames == VariableKeys \union {"no_such_variable"}

\* "" stands for a placeholder without suffix; "prev" for a suffix that is
\* neither next nor last.
TemplateSuffixes == {"", "next", "last", "prev"}

\* context['game'] is None for filler; next_game / last_game are absent,
\* a context without a game, or a context with a game.
ResolveContexts ==
    [game : BOOLEAN, next_game : {"absent", "no_game", "game"},
     last_game : {"absent", "no_game", "game"}]

TemplateParts ==
    {[kind |-> "text", name |-> "vs", suffix |-> ""]}
        \union [kind : {"placeholder"}, name : TemplateNames, suffix : TemplateSuffixes]

RECURSIVE SeqsUpTo(_, _)
SeqsUpTo(S, n) ==
    IF n = 0 THEN {<<>>}
    ELSE SeqsUpTo(S, n - 1)
           \union { Append(q, x) : q \in { p \in SeqsUpTo(S, n - 1) : Len(p) = n - 1 },
                                   x \in S }

\* _build_variables_from_game_context: the value of every key for one game.
\* Team-level values come from team_config; the rest is '' without a game.
BuildVariablesFromGameContext(which, has_game) ==
    [key \in VariableKeys |->
        IF has_game \/ key \in BASE_ONLY_VARS
          THEN <<[variable |-> key, game |-> which]>>
          ELSE <<>>]

\* The keys of the .last pass when BASE_NEXT_ONLY_VARS is not excluded.
LastKeysBaseOnlyExcluded == VariableKeys \ BASE_ONLY_VARS

\* for key in last_vars: if key not in BASE_ONLY_VARS and key not in BASE_NEXT_ONLY_VARS
LastKeys == VariableKeys \ (BASE_ONLY_VARS \union BASE_NEXT_ONLY_VARS)

\* for key in next_vars: if key not in BASE_ONLY_VARS and key not in LAST_ONLY_VARS
NextKeys == VariableKeys \ (BASE_ONLY_VARS \union LAST_ONLY_VARS)

\* for key in current_vars: if key not in LAST_ONLY_VARS
BaseKeys == VariableKeys \ LAST_ONLY_VARS

\* _build_variable_dict: keys are <<name, suffix>>, "" for the base name.
BuildVariableDict(context) ==
    LET current_vars == BuildVariablesFromGameContext("current", context.game)
        next_vars == BuildVariablesFromGameContext("next", TRUE)
        last_vars == BuildVariablesFromGameContext("last", TRUE)
        keys == { <<k, "">> : k \in BaseKeys }
                  \union (IF context.next_game = "game"
                            THEN { <<k, "next">> : k \in NextKeys } ELSE {})
                  \union (IF context.last_game = "game"
                            THEN { <<k, "last">> : k \in LastKeys } ELSE {})
    IN [key \in keys |->
          IF key[2] = "" THEN current_vars[key[1]]
          ELSE IF key[2] = "next" THEN next_vars[key[1]]
          ELSE last_vars[key[1]]]

\* replace_variable: variables.get(var_name, '')
ReplaceVariable(variables, part) ==
    IF part.kind = "text" THEN <<[variable |-> part.name, game |-> "literal"]>>
    ELSE IF <<part.name, part.suffix>> \in DOMAIN variables
           THEN variables[<<part.name, part.suffix>>]
           ELSE <<>>

RECURSIVE Concat(_)
Concat(qs) == IF qs = <<>> THEN <<>> ELSE Head(qs) \o Concat(Tail(qs))

RsInit ==
    /\ rs_context \in ResolveContexts
    /\ rs_template \in SeqsUpTo(TemplateParts, MaxParts)
    /\ all_variables = <<>>
    /\ rs_replacements = <<>>
    /\ rs_result = <<>>
    /\ rs_pc = "ready"

\* if not template: return ""
RsResolveEmpty ==
    /\ rs_pc = "ready"
    /\ rs_template = <<>>
    /\ rs_pc' = "returned"
    /\ rs_result' = <<>>
    /\ UNCHANGED <<rs_context, rs_template, all_variables, rs_replacements>>
    /\ UNCHANGED rsOthers

\* resolve: build the dictionary, then re.sub over the placeholders.
RsResolve ==
    /\ rs_pc = "ready"
    /\ rs_template # <<>>
    /\ LET variables == BuildVariableDict(rs_context)
           replaced == [i \in 1..Len(rs_template) |->
                           ReplaceVariable(variables, rs_template[i])]
       IN /\ all_variables' = variables
          /\ rs_replacements' = replaced
          /\ rs_result' = Concat(replaced)
    /\ rs_pc' = "returned"
    /\ UNCHANGED <<rs_context, rs_template>>
    /\ UNCHANGED rsOthers

RsNext ==
    \/ RsResolveEmpty
    \/ RsResolve

InitResolve == RsInit /\ OrdParked /\ KwParked /\ NumParked /\ TlParked /\ RlParked /\ SvcParked /\ EpgParked /\ RqParked /\ EoParked /\ DsParked /\ RgParked /\ ImParked /\ LgParked /\ GzParked /\ FcParked /\ LcParked /\ CpParked /\ RiParked /\ TmParked /\ TsParked /\ WrParked /\ RfParked

SpecResolve == InitResolve /\ [][RsNext]_vars

\* The suffix rule of a variable.
SuffixRuleOf(name) ==
    IF name \in BASE_ONLY_VARS THEN "BASE_ONLY"
    ELSE IF name \in LAST_ONLY_VARS THEN "LAST_ONLY"
    ELSE IF name \in BASE_NEXT_ONLY_VARS THEN "BASE_NEXT_ONLY"
    ELSE "ALL"

\* suffix_map of to_api_format: the suffixes each rule allows.
AvailableSuffixes(rule) ==
    IF rule = "BASE_ONLY" THEN {""}
    ELSE IF rule = "BASE_NEXT_ONLY" THEN {"", "next"}
    ELSE IF rule = "LAST_ONLY" THEN {"last"}
    ELSE {"", "next", "last"}

MaxOptions == 2
MaxStreak == 1

\* priority == 100: fallback descriptions
FallbackPriority == 100

\* option.get('priority', 50)
DefaultPriority == 50

\* condition_value as the option holds it: absent, an integer, or text that
\* is not a number.
ConditionValues ==
    {[kind |-> "none", n |-> 0], [kind |-> "text", n |-> 0]}
        \union {[kind |-> "int", n |-> n] : n \in {MaxStreak}}

\* The conditions of the model: none, one without a value, one with a
\* numeric value, and one _evaluate_condition does not know.
Conditions ==
    {[condition |-> c, condition_value |-> [kind |-> "none", n |-> 0]] :
        c \in {"", "is_home", "no_such_condition"}}
      \union {[condition |-> "win_streak", condition_value |-> v] : v \in ConditionValues}

\* An option; priority 0 stands for an option without the key.
DescriptionOptions ==
    { [template |-> t, priority |-> p, condition |-> c.condition,
       condition_value |-> c.condition_value] :
        t \in {"", "A", "B"}, p \in {0, 1, FallbackPriority}, c \in Conditions }

DescriptionContexts == [streak_count : 0..MaxStreak, is_home : BOOLEAN]

\* option.get('priority', 50)
PriorityOfOption(option) ==
    IF option.priority = 0 THEN DefaultPriority ELSE option.priority

\* if condition_value: None and 0 are falsy.
ValueTruthy(value) == value.kind = "text" \/ (value.kind = "int" /\ value.n # 0)

\* _evaluate_condition: "true", "false", or "raise" where int(condition_value)
\* raises ValueError.
EvaluateCondition(condition_type, condition_value, context) ==
    IF condition_type = "win_streak"
      THEN IF ~ValueTruthy(condition_value) THEN "false"
           ELSE IF condition_value.kind = "text" THEN "raise"
           ELSE IF context.streak_count >= condition_value.n THEN "true" ELSE "false"
    ELSE IF condition_type = "is_home"
      THEN IF context.is_home THEN "true" ELSE "false"
    ELSE "false"

\* priority_groups[priority].append(template)
AddToGroup(groups, priority, template) ==
    IF priority \in DOMAIN groups
      THEN [groups EXCEPT ![priority] = Append(@, template)]
      ELSE [p \in DOMAIN groups \union {priority} |->
               IF p = priority THEN <<template>> ELSE groups[p]]

\* The loop over the options: the groups, or raised when a condition raised.
RECURSIVE GroupOptions(_, _, _)
GroupOptions(options, groups, context) ==
    IF options = <<>> THEN [raised |-> FALSE, groups |-> groups]
    ELSE LET option == Head(options)
             priority == PriorityOfOption(option)
         IN IF option.template = ""
              THEN GroupOptions(Tail(options), groups, context)
            ELSE IF priority = FallbackPriority
              THEN GroupOptions(Tail(options),
                                AddToGroup(groups, priority, option.template), context)
            ELSE IF option.condition = ""
              THEN GroupOptions(Tail(options), groups, context)
            ELSE LET verdict == EvaluateCondition(option.condition,
                                                  option.condition_value, context)
                 IN IF verdict = "raise" THEN [raised |-> TRUE, groups |-> groups]
                    ELSE IF verdict = "true"
                      THEN GroupOptions(Tail(options),
                               AddToGroup(groups, priority, option.template), context)
                    ELSE GroupOptions(Tail(options), groups, context)

\* The lowest-numbered bucket replaced by the highest-numbered one.
HighestPriorityMax(groups) == MaxOf(DOMAIN groups)

\* highest_priority = min(priority_groups.keys())
HighestPriority(groups) == MinOf(DOMAIN groups)

DsInit ==
    /\ description_options \in
          [kind : {"list", "json"}, options : SeqsUpTo(DescriptionOptions, MaxOptions)]
            \union [kind : {"malformed_json", "other"}, options : {<<>>}]
    /\ ds_context \in DescriptionContexts
    /\ priority_groups = <<>>
    /\ ds_result = [template |-> "", priority |-> 0]
    /\ ds_pc = "ready"

dsInputs == <<description_options, ds_context>>

\* json.loads fails, or the argument is neither text nor a list: return ''.
DsUnparseable ==
    /\ ds_pc = "ready"
    /\ description_options.kind \in {"malformed_json", "other"}
    /\ ds_result' = [template |-> "", priority |-> 0]
    /\ ds_pc' = "returned"
    /\ UNCHANGED <<dsInputs, priority_groups>>
    /\ UNCHANGED dsOthers

\* No options, or no option matched: return ''.
DsNothingMatched ==
    /\ ds_pc = "ready"
    /\ description_options.kind \in {"list", "json"}
    /\ LET grouped == GroupOptions(description_options.options, <<>>, ds_context)
       IN /\ ~grouped.raised
          /\ DOMAIN grouped.groups = {}
          /\ priority_groups' = grouped.groups
    /\ ds_result' = [template |-> "", priority |-> 0]
    /\ ds_pc' = "returned"
    /\ UNCHANGED dsInputs
    /\ UNCHANGED dsOthers

\* random.choice among the templates of the smallest priority present.
DsChoose ==
    /\ ds_pc = "ready"
    /\ description_options.kind \in {"list", "json"}
    /\ LET grouped == GroupOptions(description_options.options, <<>>, ds_context)
       IN /\ ~grouped.raised
          /\ DOMAIN grouped.groups # {}
          /\ priority_groups' = grouped.groups
          /\ LET highest_priority == HighestPriority(grouped.groups)
                 matching_templates == grouped.groups[highest_priority]
             IN \E i \in 1..Len(matching_templates) :
                   ds_result' = [template |-> matching_templates[i],
                                 priority |-> highest_priority]
    /\ ds_pc' = "returned"
    /\ UNCHANGED dsInputs
    /\ UNCHANGED dsOthers

\* int(condition_value) raises ValueError inside _evaluate_condition; nothing
\* in select_description catches it.
DsConditionRaises ==
    /\ ds_pc = "ready"
    /\ description_options.kind \in {"list", "json"}
    /\ GroupOptions(description_options.options, <<>>, ds_context).raised
    /\ ds_pc' = "raised"
    /\ UNCHANGED <<dsInputs, priority_groups, ds_result>>
    /\ UNCHANGED dsOthers

DsNext ==
    \/ DsUnparseable
    \/ DsNothingMatched
    \/ DsChoose
    \/ DsConditionRaises

InitDescription == DsInit /\ OrdParked /\ KwParked /\ NumParked /\ TlParked /\ RlParked /\ SvcParked /\ EpgParked /\ RqParked /\ EoParked /\ RsParked /\ RgParked /\ ImParked /\ LgParked /\ GzParked /\ FcParked /\ LcParked /\ CpParked /\ RiParked /\ TmParked /\ TsParked /\ WrParked /\ RfParked

SpecDescription == InitDescription /\ [][DsNext]_vars

\* The options that count as matched: they carry a template, and either
\* have priority 100 or name a condition that holds.
MatchedOptions ==
    { i \in 1..Len(description_options.options) :
        LET option == description_options.options[i]
        IN /\ option.template # ""
           /\ \/ PriorityOfOption(option) = FallbackPriority
              \/ /\ option.condition # ""
                 /\ EvaluateCondition(option.condition, option.condition_value,
                                      ds_context) = "true" }

\* C17: the returned description is the template of a matched option whose
\* priority number is the smallest among the matched options; a priority-100
\* option is returned only when no conditional option matched; when nothing
\* matched the result is empty.
C17_SmallestPriorityWins ==
    ds_pc = "returned" =>
        LET opts == description_options.options IN
        IF MatchedOptions = {}
          THEN ds_result.template = ""
          ELSE /\ \E i \in MatchedOptions :
                     /\ opts[i].template = ds_result.template
                     /\ PriorityOfOption(opts[i]) = ds_result.priority
                     /\ \A j \in MatchedOptions :
                           PriorityOfOption(opts[i]) <= PriorityOfOption(opts[j])
               /\ ds_result.priority = FallbackPriority =>
                     \A j \in MatchedOptions :
                         PriorityOfOption(opts[j]) = FallbackPriority

\* A conditional option and a fallback both matched, the fallback listed
\* first, and the conditional option's template was returned.
C17_Witness ==
    /\ ds_pc = "returned"
    /\ Len(description_options.options) = 2
    /\ MatchedOptions = {1, 2}
    /\ description_options.options[1].priority = FallbackPriority
    /\ description_options.options[2].priority = 1
    /\ description_options.options[1].template = "A"
    /\ description_options.options[2].template = "B"
    /\ ds_result = [template |-> "B", priority |-> 1]

\* C18: conditional-description selection always returns a string: no
\* option list, condition value or context makes select_description raise.
C18_SelectionNeverRaises == ds_pc # "raised"


(***************************************************************************)
(* bulk_import_teams (the service and the API route)                       *)
(***************************************************************************)

MaxImportTeams == 2
MaxImportRuns == 3
NumTeamIds == 1

Sports == {"soccer", "basketball"}

LeaguesOf(sport) ==
    IF sport = "soccer" THEN {"eng.1", "uefa.champions"} ELSE {"nba", "wnba"}

\* ImportTeam; the provider is the same for every tm here, and the name,
\* abbreviation and logo never enter a decision.
ImportTeams ==
    UNION { { [provider_team_id |-> i, sport |-> s, league |-> l] : l \in LeaguesOf(s) }
            : i \in 1..NumTeamIds, s \in Sports }

\* team.sport.lower() == "soccer"
IsSoccer(sport) == sport = "soccer"

\* (provider, provider_team_id, sport)
SportKey(t) == <<t.provider_team_id, t.sport>>

\* (provider, provider_team_id, sport, league) of a request tm
FullKey(t) == <<t.provider_team_id, t.sport, t.league>>

\* (provider, provider_team_id, sport, primary_league) of a table row
RowFullKey(row) == <<row.provider_team_id, row.sport, row.primary_league>>

\* team_cache_leagues.get(sport_key, [])
TeamCacheLeagues(cache, key) ==
    { c.league : c \in { e \in cache : SportKey(e) = key } }

\* INSERT INTO teams (...): the row of a new tm
NewRow(tm, leagues) ==
    [provider_team_id |-> tm.provider_team_id, sport |-> tm.sport,
     primary_league |-> tm.league, leagues |-> leagues]

\* existing_sport[sport_key]: the rowids with that key, in rowid order
ExistingSport(rows, key) ==
    { i \in 1..Len(rows) : SportKey(rows[i]) = key }

\* full_key in existing_full
InExistingFull(rows, key) ==
    \E i \in 1..Len(rows) : RowFullKey(rows[i]) = key

FirstOf(S) == CHOOSE i \in S : \A j \in S : i <= j
LastOf(S) == CHOOSE i \in S : \A j \in S : j <= i

\* [lg for lg in all_leagues if lg not in current_leagues]
NewToAddAlways(all_leagues, current_leagues) == all_leagues

NewToAdd(all_leagues, current_leagues) == all_leagues \ current_leagues

\* One pass of the service's loop over the request, for one tm.
ServiceImportTeam(st, cache, tm) ==
    LET sport_key == SportKey(tm)
        all_leagues == TeamCacheLeagues(cache, sport_key) \union {tm.league}
        found == ExistingSport(st.rows, sport_key)
    IN  IF IsSoccer(tm.sport)
        THEN IF found # {}
             THEN LET team_id == FirstOf(found)
                      current_leagues == st.rows[team_id].leagues
                  IN  IF NewToAdd(all_leagues, current_leagues) = {}
                      THEN [st EXCEPT !.skipped = @ + 1]
                      ELSE [st EXCEPT !.rows[team_id].leagues = current_leagues \union all_leagues,
                                      !.updated = @ + 1]
             ELSE [st EXCEPT !.rows = Append(@, NewRow(tm, all_leagues)),
                             !.imported = @ + 1]
        ELSE IF InExistingFull(st.rows, FullKey(tm))
             THEN [st EXCEPT !.skipped = @ + 1]
             ELSE [st EXCEPT !.rows = Append(@, NewRow(tm, {tm.league})),
                             !.imported = @ + 1]

\* One pass of the route's loop: every sport is consolidated by
\* (provider, provider_team_id, sport); existing[key] is the last row read.
RouteImportTeam(st, tm) ==
    LET found == ExistingSport(st.rows, SportKey(tm))
    IN  IF found # {}
        THEN LET team_id == LastOf(found)
                 current_leagues == st.rows[team_id].leagues
             IN  IF tm.league \in current_leagues
                 THEN [st EXCEPT !.skipped = @ + 1]
                 ELSE [st EXCEPT !.rows[team_id].leagues = current_leagues \union {tm.league},
                                 !.updated = @ + 1]
        ELSE [st EXCEPT !.rows = Append(@, NewRow(tm, {tm.league})),
                        !.imported = @ + 1]

RECURSIVE BulkImportFrom(_, _, _, _, _)
BulkImportFrom(importer, st, cache, teams, k) ==
    IF k > Len(teams)
    THEN st
    ELSE BulkImportFrom(importer,
                        IF importer = "service"
                        THEN ServiceImportTeam(st, cache, teams[k])
                        ELSE RouteImportTeam(st, teams[k]),
                        cache, teams, k + 1)

\* bulk_import_teams: the table afterwards and the three counters
BulkImportTeams(importer, rows, cache, teams) ==
    BulkImportFrom(importer,
                   [rows |-> rows, imported |-> 0, updated |-> 0, skipped |-> 0],
                   cache, teams, 1)

ImportRequests ==
    UNION { [1..n -> ImportTeams] : n \in 0..MaxImportTeams }

ImInit ==
    /\ im_teams = <<>>
    /\ team_cache \in SUBSET { t \in ImportTeams : IsSoccer(t.sport) /\ t.provider_team_id = 1 }
    /\ im_importer \in {"service", "route"}
    /\ im_runs = 0
    /\ im_request = <<>>
    /\ im_result = [imported |-> 0, updated |-> 0, skipped |-> 0]
    /\ im_repeat = FALSE

ImRun(teams) ==
    LET st == BulkImportTeams(im_importer, im_teams, team_cache, teams)
    IN  /\ im_runs < MaxImportRuns
        /\ im_teams' = st.rows
        /\ im_result' = [imported |-> st.imported, updated |-> st.updated, skipped |-> st.skipped]
        /\ im_request' = teams
        /\ im_runs' = im_runs + 1
        /\ im_repeat' = (im_runs >= 1 /\ teams = im_request)
        /\ UNCHANGED <<team_cache, im_importer>>
        /\ UNCHANGED imOthers

\* POST /teams/bulk-import with a new tm list
ImBulkImport ==
    \E teams \in ImportRequests : teams # im_request /\ ImRun(teams)

\* the same tm list once more
ImBulkImportAgain ==
    im_runs >= 1 /\ ImRun(im_request)

ImNext == ImBulkImport \/ ImBulkImportAgain

InitImport == ImInit /\ OrdParked /\ KwParked /\ NumParked /\ TlParked /\ RlParked /\ SvcParked /\ EpgParked /\ RqParked /\ EoParked /\ RsParked /\ DsParked /\ RgParked /\ LgParked /\ GzParked /\ FcParked /\ LcParked /\ CpParked /\ RiParked /\ TmParked /\ TsParked /\ WrParked /\ RfParked

SpecImport == InitImport /\ [][ImNext]_vars

\* Two rows for one team: the same (id, sport, primary league), or two rows
\* of one soccer club.
DuplicateRows(rows) ==
    \E i, j \in 1..Len(rows) :
        /\ i < j
        /\ \/ RowFullKey(rows[i]) = RowFullKey(rows[j])
           \/ IsSoccer(rows[i].sport) /\ SportKey(rows[i]) = SportKey(rows[j])

\* request teams that are soccer clubs already in the table
KnownSoccer(rows, teams) ==
    { k \in 1..Len(teams) : IsSoccer(teams[k].sport) /\ ExistingSport(rows, SportKey(teams[k])) # {} }

\* C21: importing the same tm list a second time reports imported=0,
\* updated=0, skipped=N and leaves the table as it is; no import ever leaves
\* two rows for one team; and an import of a soccer club that already has a
\* row adds no row for it, changing nothing of that row but its leagues list,
\* which afterwards holds the imported league.
C21_BulkImportIdempotent ==
    /\ [][(im_runs' = im_runs + 1 /\ im_runs >= 1 /\ im_request' = im_request)
              => /\ im_result' = [imported |-> 0, updated |-> 0, skipped |-> Len(im_request)]
                 /\ im_teams' = im_teams]_vars
    /\ [](~DuplicateRows(im_teams))
    /\ [][im_runs' = im_runs + 1
              => \A k \in KnownSoccer(im_teams, im_request') :
                    LET key == SportKey(im_request'[k])
                    IN  /\ ExistingSport(im_teams', key) = ExistingSport(im_teams, key)
                        /\ \A i \in ExistingSport(im_teams, key) :
                              /\ im_teams'[i].primary_league = im_teams[i].primary_league
                              /\ im_teams[i].leagues \subseteq im_teams'[i].leagues
                        /\ \E i \in ExistingSport(im_teams', key) :
                              im_request'[k].league \in im_teams'[i].leagues]_vars

\* a list of two teams, one of them a soccer club, was imported a second
\* time after the first import had widened the club's leagues list
C21_Witness ==
    /\ im_repeat
    /\ Len(im_request) = MaxImportTeams
    /\ im_result = [imported |-> 0, updated |-> 0, skipped |-> MaxImportTeams]
    /\ \E k \in 1..Len(im_request) : IsSoccer(im_request[k].sport)
    /\ \E k \in 1..Len(im_request) : ~IsSoccer(im_request[k].sport)
    /\ \E i \in 1..Len(im_teams) : Cardinality(im_teams[i].leagues) = 2


(***************************************************************************)
(* LogoManager.upload_or_find                                              *)
(***************************************************************************)

NumUploaders == 2
NumLogoUrls == 2
MaxLogoCalls == 3

Uploaders == 1..NumUploaders
LogoUrls == 1..NumLogoUrls

\* the id the downstream manager gives the next logo
NextLogoId(logos) ==
    IF logos = {} THEN 1
    ELSE (CHOOSE l \in logos : \A m \in logos : m.id <= l.id).id + 1

\* _ensure_cache: an empty cache is filled from the downstream list, one
\* logo per url (a later one of the list replaces an earlier one)
EnsureCache(cache, logos) ==
    IF cache = {}
    THEN { l \in logos : \A m \in logos : m.url = l.url => m.id <= l.id }
    ELSE cache

\* self._cache.get(url): the logos cached under the url, none or one
CacheLookup(cache, url) == { l \in cache : l.url = url }

\* self._cache[url] = logo
CacheStore(cache, logo) == { l \in cache : l.url # logo.url } \union {logo}

LgInit ==
    /\ lg_logos \in {{}, {[id |-> 1, url |-> 1]}}
    /\ lg_unique \in BOOLEAN
    /\ lg_cache = {}
    /\ lg_pc = [c \in Uploaders |-> "idle"]
    /\ lg_url = [c \in Uploaders |-> 1]
    /\ lg_calls = 0
    /\ lg_returned = {}
    /\ lg_created = {}

\* upload() up to the cache lookup: find_by_url(url) hit, the call returns
\* the existing logo's id
LgFindExisting(c, url) ==
    LET filled == EnsureCache(lg_cache, lg_logos)
    IN  /\ lg_pc[c] = "idle"
        /\ lg_calls < MaxLogoCalls
        /\ CacheLookup(filled, url) # {}
        /\ lg_cache' = filled
        /\ lg_calls' = lg_calls + 1
        /\ lg_url' = [lg_url EXCEPT ![c] = url]
        /\ lg_returned' = lg_returned
               \union { [url |-> url, id |-> l.id, answered |-> TRUE] : l \in CacheLookup(filled, url) }
        /\ UNCHANGED <<lg_logos, lg_unique, lg_pc, lg_created>>
        /\ UNCHANGED lgOthers

\* upload() up to the cache lookup: find_by_url(url) is None, the POST is
\* sent
LgFindMissing(c, url) ==
    LET filled == EnsureCache(lg_cache, lg_logos)
    IN  /\ lg_pc[c] = "idle"
        /\ lg_calls < MaxLogoCalls
        /\ CacheLookup(filled, url) = {}
        /\ lg_cache' = filled
        /\ lg_calls' = lg_calls + 1
        /\ lg_url' = [lg_url EXCEPT ![c] = url]
        /\ lg_pc' = [lg_pc EXCEPT ![c] = "posting"]
        /\ UNCHANGED <<lg_logos, lg_unique, lg_returned, lg_created>>
        /\ UNCHANGED lgOthers

\* the POST answers 200/201: the new logo is cached and its id returned
LgPostCreated(c) ==
    LET logo == [id |-> NextLogoId(lg_logos), url |-> lg_url[c]]
    IN  /\ lg_pc[c] = "posting"
        /\ ~(lg_unique /\ \E l \in lg_logos : l.url = lg_url[c])
        /\ lg_logos' = lg_logos \union {logo}
        /\ lg_created' = lg_created \union {logo}
        /\ lg_cache' = CacheStore(lg_cache, logo)
        /\ lg_returned' = lg_returned \union {[url |-> lg_url[c], id |-> logo.id, answered |-> TRUE]}
        /\ lg_pc' = [lg_pc EXCEPT ![c] = "idle"]
        /\ UNCHANGED <<lg_unique, lg_url, lg_calls>>
        /\ UNCHANGED lgOthers

\* the POST gets no response (response is None): upload_or_find returns None
LgPostFailed(c) ==
    /\ lg_pc[c] = "posting"
    /\ lg_returned' = lg_returned \union {[url |-> lg_url[c], id |-> 0, answered |-> FALSE]}
    /\ lg_pc' = [lg_pc EXCEPT ![c] = "idle"]
    /\ UNCHANGED <<lg_logos, lg_unique, lg_cache, lg_url, lg_calls, lg_created>>
    /\ UNCHANGED lgOthers

\* the POST is answered with another status than 200/201, the downstream
\* manager refusing a second logo for the url: upload_or_find returns None
LgPostRejected(c) ==
    /\ lg_pc[c] = "posting"
    /\ lg_unique
    /\ \E l \in lg_logos : l.url = lg_url[c]
    /\ lg_returned' = lg_returned \union {[url |-> lg_url[c], id |-> 0, answered |-> TRUE]}
    /\ lg_pc' = [lg_pc EXCEPT ![c] = "idle"]
    /\ UNCHANGED <<lg_logos, lg_unique, lg_cache, lg_url, lg_calls, lg_created>>
    /\ UNCHANGED lgOthers

\* clear_cache()
LgClearCache ==
    /\ lg_cache # {}
    /\ lg_cache' = {}
    /\ UNCHANGED <<lg_logos, lg_unique, lg_pc, lg_url, lg_calls, lg_returned, lg_created>>
    /\ UNCHANGED lgOthers

LgNext ==
    \/ \E c \in Uploaders, url \in LogoUrls : LgFindExisting(c, url)
    \/ \E c \in Uploaders, url \in LogoUrls : LgFindMissing(c, url)
    \/ \E c \in Uploaders : LgPostCreated(c)
    \/ \E c \in Uploaders : LgPostFailed(c)
    \/ \E c \in Uploaders : LgPostRejected(c)
    \/ LgClearCache

InitLogo == LgInit /\ OrdParked /\ KwParked /\ NumParked /\ TlParked /\ RlParked /\ SvcParked /\ EpgParked /\ RqParked /\ EoParked /\ RsParked /\ DsParked /\ RgParked /\ ImParked /\ GzParked /\ FcParked /\ LcParked /\ CpParked /\ RiParked /\ TmParked /\ TsParked /\ WrParked /\ RfParked

SpecLogo == InitLogo /\ [][LgNext]_vars

\* C22: the calls of upload_or_find for one url that the downstream manager
\* answered (served from the cache of its logos included) all return the
\* same logo id, and the uploads create at most one logo per url in the
\* downstream manager, whether the calls follow each other or overlap.
C22_UploadOrFindIdempotent ==
    /\ \A r1, r2 \in lg_returned :
          (r1.url = r2.url /\ r1.answered /\ r2.answered) => r1.id = r2.id
    /\ \A l1, l2 \in lg_created : l1.url = l2.url => l1.id = l2.id


(***************************************************************************)
(* gold_zone._stream_date_check                                            *)
(***************************************************************************)

\* date(2026, 2, 7) and date(2026, 2, 23), as year and day of the year
OlympicsYear == 2026
OlympicsStartDoy == 38
OlympicsEndDoy == 54
BroadcastStartUtcHour == 5

MaxDayNumber == 18
MidOffset == 6

NoDate == [some |-> FALSE, year |-> 0, doy |-> 0]
Date(y, d) == [some |-> TRUE, year |-> y, doy |-> d]

GzYears == {OlympicsYear - 1, OlympicsYear}

\* the day before the games, their first day, a day inside, their last day
\* and the day after
GzDoys ==
    {OlympicsStartDoy - 1, OlympicsStartDoy, OlympicsStartDoy + MidOffset,
     OlympicsEndDoy, OlympicsEndDoy + 1}

\* What a stream name carries: "Day N" (day_token, -1 for none) and a
\* calendar date, written with its year ("2026-02-13") or without ("Feb 13",
\* "2/13").
StreamNames ==
    [day_token : -1..MaxDayNumber,
     cal : {"none", "month_day", "full"},
     cal_year : GzYears,
     cal_doy : GzDoys]

\* _get_active_day(): before 05:00 UTC the previous day is still active
GetActiveDay(now_utc) ==
    IF now_utc.hour < BroadcastStartUtcHour
    THEN Date(now_utc.year, now_utc.doy - 1)
    ELSE Date(now_utc.year, now_utc.doy)

\* _resolve_day_number_to_date
ResolveDayNumberToDate(name) ==
    IF name.day_token = -1
    THEN NoDate
    ELSE LET resolved == OlympicsStartDoy + (name.day_token - 1)
         IN  IF resolved < OlympicsStartDoy \/ resolved > OlympicsEndDoy
             THEN NoDate
             ELSE Date(OlympicsYear, resolved)

\* extract_and_mask_datetime(stream_name)[1]: the calendar date of the name,
\* a date written without a year taking the current year
ExtractDate(name, now_utc) ==
    CASE name.cal = "none" -> NoDate
      [] name.cal = "month_day" -> Date(now_utc.year, name.cal_doy)
      [] name.cal = "full" -> Date(name.cal_year, name.cal_doy)

\* _stream_date_check(stream_name)
StreamDateCheck(name, now_utc) ==
    LET active_day == GetActiveDay(now_utc)
        resolved_date == ResolveDayNumberToDate(name)
        extracted_date == ExtractDate(name, now_utc)
    IN  IF resolved_date.some
        THEN [ok |-> resolved_date = active_day, date |-> resolved_date]
        ELSE IF ~extracted_date.some
             THEN [ok |-> TRUE, date |-> NoDate]
             ELSE [ok |-> extracted_date.doy = active_day.doy, date |-> extracted_date]

GzInit ==
    /\ gz_now \in [year : GzYears, doy : GzDoys, hour : {BroadcastStartUtcHour - 1, BroadcastStartUtcHour}]
    /\ gz_name \in StreamNames
    /\ gz_name.cal = "none" => (gz_name.cal_year = OlympicsYear /\ gz_name.cal_doy = OlympicsStartDoy)
    /\ gz_name.cal = "month_day" => gz_name.cal_year = OlympicsYear
    /\ gz_pc = "start"
    /\ gz_result = [ok |-> FALSE, date |-> NoDate]

GzStreamDateCheck ==
    /\ gz_pc = "start"
    /\ gz_result' = StreamDateCheck(gz_name, gz_now)
    /\ gz_pc' = "checked"
    /\ UNCHANGED <<gz_now, gz_name>>
    /\ UNCHANGED gzOthers

GzNext == GzStreamDateCheck

InitGoldZone == GzInit /\ OrdParked /\ KwParked /\ NumParked /\ TlParked /\ RlParked /\ SvcParked /\ EpgParked /\ RqParked /\ EoParked /\ RsParked /\ DsParked /\ RgParked /\ ImParked /\ LgParked /\ FcParked /\ LcParked /\ CpParked /\ RiParked /\ TmParked /\ TsParked /\ WrParked /\ RfParked

SpecGoldZone == InitGoldZone /\ [][GzNext]_vars

\* the "Day N" token of the name is one of the games' days
HasOlympicDay(name) == name.day_token \in 1..(OlympicsEndDoy - OlympicsStartDoy + 1)

\* the date the name carries equals the active day: the games' day N, or
\* else the calendar date, compared with its year when the name writes one
CarriedDateIsActiveDay(name, active_day) ==
    IF HasOlympicDay(name)
    THEN active_day = Date(OlympicsYear, OlympicsStartDoy + (name.day_token - 1))
    ELSE /\ name.cal # "none"
         /\ name.cal_doy = active_day.doy
         /\ name.cal = "full" => name.cal_year = active_day.year

\* C24: the check includes the stream exactly when its name carries no date
\* or carries the date of the active day; a "Day N" token with N from 1 to
\* the games' last day counts as the date of that day of the games and
\* decides alone, whatever calendar date the name carries besides.
C24_StreamDateCheck ==
    gz_pc = "checked" =>
        (gz_result.ok <=>
            \/ ~HasOlympicDay(gz_name) /\ gz_name.cal = "none"
            \/ CarriedDateIsActiveDay(gz_name, GetActiveDay(gz_now)))


(***************************************************************************)
(* _create_filler_chunks and _get_next_time_block                          *)
(*                                                                         *)
(* A datetime is an instant t, in hours, with the UTC offset of its tzinfo *)
(* (off): its wall clock reads t + off.  Game starts and ends are parsed   *)
(* with offset 0 (fromisoformat of "...+00:00"); day_start and day_end     *)
(* are built in the user time zone.                                        *)
(***************************************************************************)

\* Bounds of the filler chunk model.
MaxInstant == 22
MaxTzOffset == 5

HoursPerDay == 24

\* time_blocks = [0, 6, 12, 18]
TimeBlocks == <<0, 6, 12, 18>>

Datetime(t, off) == [t |-> t, off |-> off]

\* dt.hour
HourOf(dt) == (dt.t + dt.off) % HoursPerDay

\* midnight of dt's day on dt's own wall clock
WallMidnight(dt) == (dt.t + dt.off) - HourOf(dt)

\* _get_next_time_block: the first block hour after dt.hour on dt's own wall
\* clock, else midnight of the next day; the result keeps dt's tzinfo
GetNextTimeBlockOf(dt) ==
    LET later == { i \in DOMAIN TimeBlocks : HourOf(dt) < TimeBlocks[i] }
    IN IF later # {}
         THEN Datetime(WallMidnight(dt) + TimeBlocks[MinOf(later)] - dt.off, dt.off)
         ELSE Datetime(WallMidnight(dt) + HoursPerDay - dt.off, dt.off)

\* chunk_end = next_block, without the min
ChunkEndWithoutMin(next_block, end_dt) == next_block

\* min(next_block, end_dt): aware datetimes compare by instant, the first
\* argument wins a tie
ChunkEnd(next_block, end_dt) ==
    IF end_dt.t < next_block.t THEN end_dt ELSE next_block

FcDatetimes(tz) == { Datetime(t, off) : t \in 0..MaxInstant, off \in {0, tz} }

FcInit ==
    /\ fc_tz \in (-MaxTzOffset)..0
    /\ fc_start_dt \in FcDatetimes(fc_tz)
    /\ fc_end_dt \in FcDatetimes(fc_tz)
    /\ fc_current_start = fc_start_dt
    /\ fc_time_blocks = <<>>
    /\ fc_pc = "loop"

\* while current_start < end_dt: one pass of the loop
FcChunk ==
    /\ fc_pc = "loop"
    /\ fc_current_start.t < fc_end_dt.t
    /\ LET chunk_end == ChunkEnd(GetNextTimeBlockOf(fc_current_start), fc_end_dt)
       IN /\ fc_time_blocks' = Append(fc_time_blocks, <<fc_current_start, chunk_end>>)
          /\ fc_current_start' = chunk_end
    /\ UNCHANGED <<fc_tz, fc_start_dt, fc_end_dt, fc_pc>>
    /\ UNCHANGED fcOthers

\* the loop condition fails: the chunks are built from time_blocks_list
FcReturn ==
    /\ fc_pc = "loop"
    /\ ~(fc_current_start.t < fc_end_dt.t)
    /\ fc_pc' = "done"
    /\ UNCHANGED <<fc_tz, fc_start_dt, fc_end_dt, fc_current_start, fc_time_blocks>>
    /\ UNCHANGED fcOthers

FcNext ==
    \/ FcChunk
    \/ FcReturn

InitChunks == FcInit /\ OrdParked /\ KwParked /\ NumParked /\ TlParked /\ RlParked /\ SvcParked /\ EpgParked /\ RqParked /\ EoParked /\ RsParked /\ DsParked /\ RgParked /\ ImParked /\ LgParked /\ GzParked /\ LcParked /\ CpParked /\ RiParked /\ TmParked /\ TsParked /\ WrParked /\ RfParked

SpecChunks == InitChunks /\ [][FcNext]_vars

\* The first instant after t at which the user's wall clock reads 00, 06, 12
\* or 18.
NextUserBoundary(t) ==
    MinOf({ b \in (t + 1)..(t + 6) : (b + fc_tz) % 6 = 0 })

\* C31: every chunk ends at the next 6-hour boundary of the user time zone
\* after its start or at the end of the span, whichever is earlier, and is
\* at most 6 hours long.
C31_ChunksEndAtUserBoundary ==
    \A i \in 1..Len(fc_time_blocks) :
        LET chunk_start == fc_time_blocks[i][1].t
            chunk_end == fc_time_blocks[i][2].t
        IN /\ chunk_end = IF NextUserBoundary(chunk_start) < fc_end_dt.t
                            THEN NextUserBoundary(chunk_start)
                            ELSE fc_end_dt.t
           /\ chunk_end - chunk_start <= 6

\* C32, the loop: every pass moves current_start forward and not past
\* end_dt, so the loop ends after at most end - start passes.
C32_LoopAdvances ==
    [][fc_current_start' # fc_current_start =>
          /\ fc_current_start'.t > fc_current_start.t
          /\ fc_current_start'.t <= fc_end_dt.t]_vars

\* C32, the result: for start < end the chunks tile [start, end) without a
\* chunk of zero length; for start >= end there is no chunk.
ChunksTile ==
    fc_pc = "done" =>
        IF fc_start_dt.t < fc_end_dt.t
          THEN /\ Len(fc_time_blocks) >= 1
               /\ fc_time_blocks[1][1].t = fc_start_dt.t
               /\ fc_time_blocks[Len(fc_time_blocks)][2].t = fc_end_dt.t
               /\ \A i \in 1..Len(fc_time_blocks) :
                     fc_time_blocks[i][1].t < fc_time_blocks[i][2].t
               /\ \A i \in 1..(Len(fc_time_blocks) - 1) :
                     fc_time_blocks[i + 1][1].t = fc_time_blocks[i][2].t
          ELSE fc_time_blocks = <<>>

\* C32: _create_filler_chunks terminates and its chunks exactly tile
\* [start, end); for start >= end it produces no chunk.
C32_ChunksTileSpan == C32_LoopAdvances /\ []ChunksTile

\* A span that starts inside one block and ends inside a later one has been
\* cut into three chunks.
C32_Witness ==
    /\ fc_pc = "done"
    /\ Len(fc_time_blocks) = 3
    /\ fc_start_dt.t % 6 # 0
    /\ fc_end_dt.t % 6 # 0


(***************************************************************************)
(* The LAST game context of a programme (_find_last_started_game)          *)
(***************************************************************************)

\* Bounds of the LAST context model.
MaxStart == 4
MaxExtendedEvents == 3

RawEvents == [date : 0..MaxStart, status : {"final", "scheduled"}]

\* Schedules of one team: no two events start at the same time.
ExtendedSchedules ==
    { E \in SUBSET RawEvents :
        /\ Cardinality(E) <= MaxExtendedEvents
        /\ \A e1, e2 \in E : e1.date = e2.date => e1 = e2 }

\* The most recent of the started games, by start time.
MostRecent(started_games) ==
    IF started_games = {} THEN {}
    ELSE { e \in started_games : \A o \in started_games : o.date <= e.date }

\* _find_last_started_game(events=...): the games with
\* event_datetime <= before_datetime, and of those the latest start; the
\* result is empty (None) or one event.
FindLastStartedGame(evs, before_datetime) ==
    MostRecent({ e \in evs : e.date <= before_datetime })

LcInit ==
    /\ lc_now \in 0..MaxStart
    /\ extended_events \in ExtendedSchedules
    /\ lc_todo = extended_events
    /\ last_context = <<>>

\* _process_event for one event of the schedule: before_datetime is not
\* passed and defaults to datetime.now(tz=timezone.utc).
LcProcessEvent ==
    \E event \in lc_todo :
        /\ last_context' =
              [e \in DOMAIN last_context \union {event} |->
                  IF e = event
                    THEN FindLastStartedGame(extended_events, lc_now)
                    ELSE last_context[e]]
        /\ lc_todo' = lc_todo \ {event}
        /\ UNCHANGED <<lc_now, extended_events>>
        /\ UNCHANGED lcOthers

LcNext == LcProcessEvent

InitLastContext == LcInit /\ OrdParked /\ KwParked /\ NumParked /\ TlParked /\ RlParked /\ SvcParked /\ EpgParked /\ RqParked /\ EoParked /\ RsParked /\ DsParked /\ RgParked /\ ImParked /\ LgParked /\ GzParked /\ FcParked /\ CpParked /\ RiParked /\ TmParked /\ TsParked /\ WrParked /\ RfParked

SpecLastContext == InitLastContext /\ [][LcNext]_vars

\* C33: the LAST context of every programme is the most recent event of the
\* schedule that starts before the programme's own start, whatever the
\* event's status, and none if no event starts before it.
C33_LastRelativeToProgramme ==
    \A event \in DOMAIN last_context :
        last_context[event] =
            MostRecent({ e \in extended_events : e.date < event.date })


(***************************************************************************)
(* ESPNClient: the shared HTTP client of concurrent requests               *)
(*                                                                         *)
(* Several threads run _request on one ESPNClient.  A step is one read or  *)
(* write of self._client outside the lock, or one whole with self._lock    *)
(* block (the lock is held for no longer than the block).                  *)
(***************************************************************************)

\* Bounds of the connection pool model.
NumThreads == 2
MaxAttempts == 2

Threads == 1..NumThreads

CpInit ==
    /\ cp_client \in {0, 1}
    /\ cp_created = cp_client
    /\ cp_closed = {}
    /\ cp_pc = [t \in Threads |-> "attempt"]
    /\ cp_local = [t \in Threads |-> 0]
    /\ cp_attempt = [t \in Threads |-> 0]
    /\ cp_ssl_client = [t \in Threads |-> 0]

\* for attempt in range(self._retry_count): the attempt begins, or the
\* loop is exhausted and _request returns None
CpAttempt(t) ==
    /\ cp_pc[t] = "attempt"
    /\ cp_pc' = [cp_pc EXCEPT ![t] = IF cp_attempt[t] < MaxAttempts
                                       THEN "check" ELSE "returned"]
    /\ UNCHANGED <<cp_client, cp_closed, cp_created, cp_local, cp_attempt,
                   cp_ssl_client>>
    /\ UNCHANGED cpOthers

\* _get_client: if self._client is None (the read outside the lock)
CpCheck(t) ==
    /\ cp_pc[t] = "check"
    /\ cp_pc' = [cp_pc EXCEPT ![t] = IF cp_client = 0 THEN "create" ELSE "return"]
    /\ UNCHANGED <<cp_client, cp_closed, cp_created, cp_local, cp_attempt,
                   cp_ssl_client>>
    /\ UNCHANGED cpOthers

\* _get_client: with self._lock: if self._client is None:
\*     self._client = httpx.Client(...)
CpCreate(t) ==
    /\ cp_pc[t] = "create"
    /\ IF cp_client = 0
         THEN /\ cp_created' = cp_created + 1
              /\ cp_client' = cp_created + 1
         ELSE UNCHANGED <<cp_client, cp_created>>
    /\ cp_pc' = [cp_pc EXCEPT ![t] = "return"]
    /\ UNCHANGED <<cp_closed, cp_local, cp_attempt, cp_ssl_client>>
    /\ UNCHANGED cpOthers

\* _get_client: return self._client (a second read, outside the lock)
CpReturn(t) ==
    /\ cp_pc[t] = "return"
    /\ cp_local' = [cp_local EXCEPT ![t] = cp_client]
    /\ cp_pc' = [cp_pc EXCEPT ![t] = "get"]
    /\ UNCHANGED <<cp_client, cp_closed, cp_created, cp_attempt, cp_ssl_client>>
    /\ UNCHANGED cpOthers

\* The tail of the except clause: sleep and continue, or return None after
\* the last attempt.
CpAfterFailure(t) ==
    /\ cp_attempt' = [cp_attempt EXCEPT ![t] = @ + 1]
    /\ cp_pc' = [cp_pc EXCEPT ![t] = IF cp_attempt[t] < MaxAttempts - 1
                                       THEN "attempt" ELSE "returned"]

\* client.get(url): on None it raises AttributeError, which no except
\* clause of _request names; on a closed client it raises RuntimeError; on
\* an open one it returns the response or fails in transport or in TLS.
CpGet(t) ==
    /\ cp_pc[t] = "get"
    /\ IF cp_local[t] = 0
         THEN /\ cp_pc' = [cp_pc EXCEPT ![t] = "raised"]
              /\ UNCHANGED <<cp_attempt, cp_ssl_client>>
         ELSE IF cp_local[t] \in cp_closed
           THEN /\ CpAfterFailure(t)
                /\ cp_ssl_client' = [cp_ssl_client EXCEPT ![t] = 0]
           ELSE \E outcome \in {"ok", "request_error", "ssl_error"} :
                  IF outcome = "ok"
                    THEN /\ cp_pc' = [cp_pc EXCEPT ![t] = "returned"]
                         /\ UNCHANGED <<cp_attempt, cp_ssl_client>>
                    ELSE /\ cp_ssl_client' =
                               [cp_ssl_client EXCEPT ![t] =
                                   IF outcome = "ssl_error" THEN cp_local[t] ELSE 0]
                         /\ IF IsSslError(outcome)
                              THEN /\ cp_pc' = [cp_pc EXCEPT ![t] = "reset"]
                                   /\ UNCHANGED cp_attempt
                              ELSE CpAfterFailure(t)
    /\ UNCHANGED <<cp_client, cp_closed, cp_created, cp_local>>
    /\ UNCHANGED cpOthers

\* _reset_client: with self._lock: if self._client: close it and set it to
\* None; then the tail of the except clause
CpReset(t) ==
    /\ cp_pc[t] = "reset"
    /\ IF cp_client # 0
         THEN /\ cp_closed' = cp_closed \union {cp_client}
              /\ cp_client' = 0
         ELSE UNCHANGED <<cp_client, cp_closed>>
    /\ CpAfterFailure(t)
    /\ UNCHANGED <<cp_created, cp_local, cp_ssl_client>>
    /\ UNCHANGED cpOthers

CpNext ==
    \E t \in Threads :
        \/ CpAttempt(t)
        \/ CpCheck(t)
        \/ CpCreate(t)
        \/ CpReturn(t)
        \/ CpGet(t)
        \/ CpReset(t)

InitPool == CpInit /\ OrdParked /\ KwParked /\ NumParked /\ TlParked /\ RlParked /\ SvcParked /\ EpgParked /\ RqParked /\ EoParked /\ RsParked /\ DsParked /\ RgParked /\ ImParked /\ LgParked /\ GzParked /\ FcParked /\ LcParked /\ RiParked /\ TmParked /\ TsParked /\ WrParked /\ RfParked

SpecPool == InitPool /\ [][CpNext]_vars

\* C34: once an attempt of a thread has failed with a TLS error, the client
\* that produced the error is closed and is no longer the pooled client
\* before the thread's next attempt begins, and the next attempt does not
\* send its request on that client.
C34_TlsErrorResetsPool ==
    \A t \in Threads :
        (cp_ssl_client[t] # 0 /\ cp_pc[t] \in {"attempt", "check", "create", "return", "get"}) =>
            /\ cp_ssl_client[t] \in cp_closed
            /\ cp_client # cp_ssl_client[t]
            /\ cp_pc[t] = "get" => cp_local[t] # cp_ssl_client[t]

\* A thread whose first attempt failed in TLS on client 1 is about to send
\* its second attempt on another client.
C34_Witness ==
    \E t \in Threads :
        /\ cp_pc[t] = "get"
        /\ cp_attempt[t] = 1
        /\ cp_ssl_client[t] = 1
        /\ cp_local[t] > 1

\* C35: the value _get_client returns to a request thread is a client,
\* never None.
C35_GetClientNeverNone ==
    \A t \in Threads : cp_pc[t] = "get" => cp_local[t] # 0


(***************************************************************************)
(* create_default_service and ProviderRegistry.initialize                  *)
(*                                                                         *)
(* Several callers run create_default_service at the same time.  No lock   *)
(* is taken anywhere on this path, so every statement that reads or writes *)
(* the registry is a step of its own.  One provider is registered.         *)
(***************************************************************************)

\* Bound of the registry initialisation model.
NumServiceCallers == 3

ServiceCallers == 1..NumServiceCallers

NoInstance == [id |-> 0, source |-> 0]

\* ProviderConfig.get_instance: the cached instance, or a new one built by
\* the factory with the league mapping source that is set at that moment
GetInstance(instance, created, source) ==
    IF instance = NoInstance THEN [id |-> created + 1, source |-> source]
                             ELSE instance

RiInit ==
    /\ ri_initialized = FALSE
    /\ ri_source = 0
    /\ ri_instance = NoInstance
    /\ ri_created = 0
    /\ ri_initialize_calls = 0
    /\ ri_pc = [c \in ServiceCallers |-> "start"]
    /\ ri_service = [c \in ServiceCallers |-> NoInstance]

\* _ensure_registry_initialized: if ProviderRegistry.is_initialized(): return
RiCheckInitialized(c) ==
    /\ ri_pc[c] = "start"
    /\ ri_pc' = [ri_pc EXCEPT ![c] = IF ri_initialized THEN "get_all" ELSE "initialize"]
    /\ UNCHANGED <<ri_initialized, ri_source, ri_instance, ri_created,
                   ri_initialize_calls, ri_service>>
    /\ UNCHANGED riOthers

\* initialize: _league_mapping_source = league_mapping_source
RiSetSource(c) ==
    /\ ri_pc[c] = "initialize"
    /\ ri_initialize_calls' = ri_initialize_calls + 1
    /\ ri_source' = c
    /\ ri_pc' = [ri_pc EXCEPT ![c] = "reset_instances"]
    /\ UNCHANGED <<ri_initialized, ri_instance, ri_created, ri_service>>
    /\ UNCHANGED riOthers

\* initialize: cls.reset_instances()
RiResetInstances(c) ==
    /\ ri_pc[c] = "reset_instances"
    /\ ri_instance' = NoInstance
    /\ ri_pc' = [ri_pc EXCEPT ![c] = "set_initialized"]
    /\ UNCHANGED <<ri_initialized, ri_source, ri_created, ri_initialize_calls,
                   ri_service>>
    /\ UNCHANGED riOthers

\* initialize: cls._initialized = True
RiSetInitialized(c) ==
    /\ ri_pc[c] = "set_initialized"
    /\ ri_initialized' = TRUE
    /\ ri_pc' = [ri_pc EXCEPT ![c] = "get_all"]
    /\ UNCHANGED <<ri_source, ri_instance, ri_created, ri_initialize_calls,
                   ri_service>>
    /\ UNCHANGED riOthers

\* providers = ProviderRegistry.get_all();
\* return SportsDataService(providers=providers)
RiGetAll(c) ==
    /\ ri_pc[c] = "get_all"
    /\ ri_instance' = GetInstance(ri_instance, ri_created, ri_source)
    /\ ri_created' = IF ri_instance = NoInstance THEN ri_created + 1 ELSE ri_created
    /\ ri_service' = [ri_service EXCEPT ![c] = ri_instance']
    /\ ri_pc' = [ri_pc EXCEPT ![c] = "done"]
    /\ UNCHANGED <<ri_initialized, ri_source, ri_initialize_calls>>
    /\ UNCHANGED riOthers

RiNext ==
    \E c \in ServiceCallers :
        \/ RiCheckInitialized(c)
        \/ RiSetSource(c)
        \/ RiResetInstances(c)
        \/ RiSetInitialized(c)
        \/ RiGetAll(c)

InitRegistryInit == RiInit /\ OrdParked /\ KwParked /\ NumParked /\ TlParked /\ RlParked /\ SvcParked /\ EpgParked /\ RqParked /\ EoParked /\ RsParked /\ DsParked /\ RgParked /\ ImParked /\ LgParked /\ GzParked /\ FcParked /\ LcParked /\ CpParked /\ TmParked /\ TsParked /\ WrParked /\ RfParked

SpecRegistryInit == InitRegistryInit /\ [][RiNext]_vars

\* C36: every provider instance was created with the dependencies injected,
\* the instance a service holds is still the registry's instance, and
\* initialize() has been called at most once.
C36_InitializeOnce ==
    /\ ri_instance # NoInstance => ri_instance.source # 0
    /\ \A c \in ServiceCallers :
          ri_service[c] # NoInstance =>
              /\ ri_service[c].source # 0
              /\ ri_service[c] = ri_instance
    /\ ri_initialize_calls <= 1



(***************************************************************************)
(* TokenManager.get_token: JWT sessions of the Dispatcharr API              *)
(*                                                                         *)
(* _sessions is a class attribute: every TokenManager built for the same   *)
(* base URL and username reads and writes the same session dict.  _lock is *)
(* created in __init__, one per instance.  A thread is between the sending *)
(* of a POST and its response while its tm_pc is "refresh" or              *)
(* "authenticate".  Tokens are numbered in the order the server issues     *)
(* them; 0 stands for None.                                                *)
(***************************************************************************)
NumTokenManagers == 2

NumTokenThreads == 2

MaxTokenCalls == 2

MaxClock == 5

TOKEN_REFRESH_BUFFER_MINUTES == 1

TOKEN_VALIDITY_MINUTES == 5

TokenManagers == 1..NumTokenManagers

TokenThreads == 1..NumTokenThreads

SessionKeys == 1..NumTokenManagers

StatusCodes == {200, 401, 403, 500}

NewSession == [access_token |-> 0, refresh_token |-> 0, token_expiry |-> 0]

SessionOf(t) == tm_sessions[tm_session_key[tm_instance[t]]]

IsValid(session, clock) ==
    IF session.access_token = 0 THEN FALSE
    ELSE IF session.token_expiry = 0 THEN FALSE
    ELSE clock < session.token_expiry

TokenExpiry(clock) == clock + (TOKEN_VALIDITY_MINUTES - TOKEN_REFRESH_BUFFER_MINUTES)

TmInit ==
    /\ tm_session_key \in [TokenManagers -> SessionKeys]
    /\ tm_sessions = [k \in {tm_session_key[i] : i \in TokenManagers} |-> NewSession]
    /\ tm_lock = [i \in TokenManagers |-> 0]
    /\ tm_instance \in [TokenThreads -> TokenManagers]
    /\ tm_pc = [t \in TokenThreads |-> "idle"]
    /\ tm_result = [t \in TokenThreads |-> 0]
    /\ tm_calls = [t \in TokenThreads |-> 0]
    /\ tm_issued = 0
    /\ tm_clock = 0

\* with self._lock: the validity check and the choice of the request to send
TmEnter(t) ==
    /\ tm_pc[t] = "idle"
    /\ tm_calls[t] < MaxTokenCalls
    /\ tm_lock[tm_instance[t]] = 0
    /\ tm_lock' = [tm_lock EXCEPT ![tm_instance[t]] = t]
    /\ tm_calls' = [tm_calls EXCEPT ![t] = @ + 1]
    /\ IF IsValid(SessionOf(t), tm_clock)
         THEN /\ tm_pc' = [tm_pc EXCEPT ![t] = "return"]
              /\ tm_result' = [tm_result EXCEPT ![t] = SessionOf(t).access_token]
         ELSE /\ tm_pc' = [tm_pc EXCEPT ![t] =
                              IF SessionOf(t).refresh_token # 0 THEN "refresh"
                              ELSE "authenticate"]
              /\ tm_result' = tm_result
    /\ UNCHANGED <<tm_session_key, tm_sessions, tm_instance, tm_issued, tm_clock>>
    /\ UNCHANGED tmOthers

\* _refresh: the response of POST /api/accounts/token/refresh/
TmRefreshResponse(t) ==
    /\ tm_pc[t] = "refresh"
    /\ \E raised \in BOOLEAN, status_code \in StatusCodes :
          IF ~raised /\ status_code = 200
            THEN /\ tm_issued' = tm_issued + 1
                 /\ tm_sessions' = [tm_sessions EXCEPT ![tm_session_key[tm_instance[t]]] =
                        [@ EXCEPT !.access_token = tm_issued + 1,
                                  !.token_expiry = TokenExpiry(tm_clock)]]
                 /\ tm_result' = [tm_result EXCEPT ![t] = tm_issued + 1]
                 /\ tm_pc' = [tm_pc EXCEPT ![t] = "return"]
            ELSE /\ tm_pc' = [tm_pc EXCEPT ![t] = "authenticate"]
                 /\ UNCHANGED <<tm_issued, tm_sessions, tm_result>>
    /\ UNCHANGED <<tm_session_key, tm_lock, tm_instance, tm_calls, tm_clock>>
    /\ UNCHANGED tmOthers

\* _authenticate: the response of POST /api/accounts/token/
TmAuthResponse(t) ==
    /\ tm_pc[t] = "authenticate"
    /\ \E raised \in BOOLEAN, status_code \in StatusCodes :
          IF ~raised /\ status_code = 200
            THEN /\ tm_issued' = tm_issued + 1
                 /\ tm_sessions' = [tm_sessions EXCEPT ![tm_session_key[tm_instance[t]]] =
                        [access_token |-> tm_issued + 1,
                         refresh_token |-> tm_issued + 1,
                         token_expiry |-> TokenExpiry(tm_clock)]]
                 /\ tm_result' = [tm_result EXCEPT ![t] = tm_issued + 1]
            ELSE /\ tm_result' = [tm_result EXCEPT ![t] = 0]
                 /\ UNCHANGED <<tm_issued, tm_sessions>>
    /\ tm_pc' = [tm_pc EXCEPT ![t] = "return"]
    /\ UNCHANGED <<tm_session_key, tm_lock, tm_instance, tm_calls, tm_clock>>
    /\ UNCHANGED tmOthers

\* the return statement leaves the with block and releases the lock
TmReturn(t) ==
    /\ tm_pc[t] = "return"
    /\ tm_lock' = [tm_lock EXCEPT ![tm_instance[t]] = 0]
    /\ tm_pc' = [tm_pc EXCEPT ![t] = "idle"]
    /\ UNCHANGED <<tm_session_key, tm_sessions, tm_instance, tm_result, tm_calls, tm_issued, tm_clock>>
    /\ UNCHANGED tmOthers

\* a minute passes
TmTick ==
    /\ tm_clock < MaxClock
    /\ tm_clock' = tm_clock + 1
    /\ UNCHANGED <<tm_session_key, tm_sessions, tm_lock, tm_instance, tm_pc, tm_result, tm_calls, tm_issued>>
    /\ UNCHANGED tmOthers

TmNext ==
    \/ \E t \in TokenThreads : TmEnter(t)
    \/ \E t \in TokenThreads : TmRefreshResponse(t)
    \/ \E t \in TokenThreads : TmAuthResponse(t)
    \/ \E t \in TokenThreads : TmReturn(t)
    \/ TmTick

InitTokens == TmInit /\ OrdParked /\ KwParked /\ NumParked /\ TlParked /\ RlParked /\ SvcParked /\ EpgParked /\ RqParked /\ EoParked /\ RsParked /\ DsParked /\ RgParked /\ ImParked /\ LgParked /\ GzParked /\ FcParked /\ LcParked /\ CpParked /\ RiParked /\ TsParked /\ WrParked /\ RfParked

SpecTokens == InitTokens /\ [][TmNext]_vars

InFlight(t) == tm_pc[t] \in {"refresh", "authenticate"}

\* C37: for one (URL, username) session at most one authenticate or refresh
\* request is in flight at a time, also when several TokenManager instances
\* share the session.
C37_OneRequestInFlightPerSession ==
    \A k \in DOMAIN tm_sessions :
        Cardinality({t \in TokenThreads :
                        InFlight(t) /\ tm_session_key[tm_instance[t]] = k}) <= 1



(***************************************************************************)
(* SportsDataService.get_team_schedule                                      *)
(*                                                                         *)
(* One team and one league: every read uses the same cache key             *)
(* make_cache_key("schedule", league, team_id).  An event is written as    *)
(* the day it is played on, counted from today (day 1).  The providers'    *)
(* get_team_schedule is modelled after the provider contract: a provider   *)
(* returns the team's games of the requested horizon and possibly later    *)
(* ones (up to the whole season).                                          *)
(***************************************************************************)
MaxDay == 3

MaxScheduleReads == 3

ScheduleDays == 1..MaxDay

\* The games a read with days_ahead has to cover
WithinHorizon(season, horizon) == {e \in season : e <= horizon}

\* provider.get_team_schedule(team_id, league, days_ahead), the provider
\* returning the games up to day upto >= days_ahead
ProviderSchedule(season, horizon, upto) ==
    IF upto < horizon THEN WithinHorizon(season, horizon)
    ELSE {e \in season : e <= upto}

\* for provider in self._providers: the first supporting provider whose
\* result is not empty, from provider p on; {} when the loop runs out
RECURSIVE FirstSchedule(_, _, _, _, _)
FirstSchedule(p, supporting, season, horizon, upto) ==
    IF p > NumProviders THEN {}
    ELSE IF supporting[p] /\ ProviderSchedule(season, horizon, upto[p]) # {}
         THEN ProviderSchedule(season, horizon, upto[p])
         ELSE FirstSchedule(p + 1, supporting, season, horizon, upto)

TsInit ==
    /\ ts_season \in SUBSET ScheduleDays
    /\ ts_supports \in [Providers -> BOOLEAN]
    /\ ts_cache = CacheAbsent
    /\ ts_days_ahead = 0
    /\ ts_populated_by = 0
    /\ ts_result = {}
    /\ ts_pc = "idle"
    /\ ts_reads = 0

\* get_team_schedule, the cache holding an entry that deserializes
TsCacheHit(horizon) ==
    /\ ts_reads < MaxScheduleReads
    /\ CacheGet(ts_cache).kind # "absent"
    /\ ~DeserializationFails(CacheGet(ts_cache))
    /\ ts_days_ahead' = horizon
    /\ ts_result' = DictToEvent(CacheGet(ts_cache))
    /\ ts_pc' = "hit"
    /\ ts_reads' = ts_reads + 1
    /\ UNCHANGED <<ts_season, ts_supports, ts_cache, ts_populated_by>>
    /\ UNCHANGED tsOthers

\* get_team_schedule, the cache returning None: the providers are asked, a
\* non-empty result is cached and returned
TsFetch(horizon) ==
    /\ ts_reads < MaxScheduleReads
    /\ \/ CacheGet(ts_cache).kind = "absent"
       \/ DeserializationFails(CacheGet(ts_cache))
    /\ \E upto \in [Providers -> horizon..MaxDay] :
          LET found == FirstSchedule(1, ts_supports, ts_season, horizon, upto)
          IN  /\ ts_result' = found
              /\ IF found # {}
                   THEN /\ ts_cache' = CacheSet(ts_cache, EventToDict(found))
                        /\ ts_populated_by' = horizon
                   ELSE UNCHANGED <<ts_cache, ts_populated_by>>
    /\ ts_days_ahead' = horizon
    /\ ts_pc' = "fetched"
    /\ ts_reads' = ts_reads + 1
    /\ UNCHANGED <<ts_season, ts_supports>>
    /\ UNCHANGED tsOthers

\* CACHE_TTL_SCHEDULE passes
TsEntryExpires ==
    /\ ts_cache.kind = "entry"
    /\ ~ts_cache.expired
    /\ ts_cache' = [ts_cache EXCEPT !.expired = TRUE]
    /\ UNCHANGED <<ts_season, ts_supports, ts_days_ahead, ts_populated_by, ts_result, ts_pc, ts_reads>>
    /\ UNCHANGED tsOthers

TsNext ==
    \/ \E horizon \in ScheduleDays : TsCacheHit(horizon)
    \/ \E horizon \in ScheduleDays : TsFetch(horizon)
    \/ TsEntryExpires

InitSchedule == TsInit /\ OrdParked /\ KwParked /\ NumParked /\ TlParked /\ RlParked /\ SvcParked /\ EpgParked /\ RqParked /\ EoParked /\ RsParked /\ DsParked /\ RgParked /\ ImParked /\ LgParked /\ GzParked /\ FcParked /\ LcParked /\ CpParked /\ RiParked /\ TmParked /\ WrParked /\ RfParked

SpecSchedule == InitSchedule /\ [][TsNext]_vars

\* Some provider supports the league
LeagueSupported == \E p \in Providers : ts_supports[p]

\* C38: a team-schedule read with a given days_ahead returns events covering
\* that horizon, even when the cache was populated by an earlier read for the
\* same team and league with a smaller days_ahead.
C38_ReadCoversHorizon ==
    (ts_pc \in {"hit", "fetched"} /\ LeagueSupported) =>
        WithinHorizon(ts_season, ts_days_ahead) \subseteq ts_result



(***************************************************************************)
(* EPGManager.wait_for_refresh                                              *)
(*                                                                         *)
(* Dispatcharr imports an EPG source asynchronously: POST /api/epg/import/ *)
(* answers 202 and queues a task, which later moves the source through     *)
(* fetching and parsing to success (updated_at changes) or error, or, with *)
(* no channels mapped, sets success at once and leaves updated_at alone.   *)
(* The source keeps the status and message of its previous import until    *)
(* the task starts.  updated_at is written as a version number.            *)
(***************************************************************************)
MaxPolls == 3

Messages == {"", "No channels mapped", "Parsed 5 programmes"}

\* (current_message or "").lower()
LowerOf(m) ==
    CASE m = "No channels mapped" -> "no channels mapped"
      [] m = "Parsed 5 programmes" -> "parsed 5 programmes"
      [] OTHER -> m

\* "no channels" in (current_message or "").lower()
MentionsNoChannels(m) == LowerOf(m) \in {"no channels mapped", "no channels"}

\* The answers of POST /api/epg/import/; 0 stands for no response
ImportStatusCodes == {0, 202, 400, 401, 404, 500}

\* refresh(epg_id).success
RefreshInitiated(status_code) == status_code = 202

SourceSeen == [status |-> wr_status, updated_at |-> wr_updated_at, message |-> wr_message]

WrInit ==
    /\ wr_status \in {"idle", "success", "error"}
    /\ wr_updated_at = 1
    /\ wr_message \in Messages
    /\ wr_job = "none"
    /\ wr_pc = "start"
    /\ wr_before_updated = 0
    /\ wr_polls = 0
    /\ wr_last = NoValue
    /\ wr_result = NoValue
    /\ wr_completed = FALSE

\* before = self.get_source(epg_id)
WrGetBefore ==
    /\ wr_pc = "start"
    /\ \E found \in BOOLEAN :
          IF found
            THEN /\ wr_before_updated' = wr_updated_at
                 /\ wr_pc' = "trigger"
                 /\ wr_result' = wr_result
            ELSE /\ wr_result' = [success |-> FALSE, how |-> "not found"]
                 /\ wr_pc' = "done"
                 /\ wr_before_updated' = wr_before_updated
    /\ UNCHANGED <<wr_status, wr_updated_at, wr_message, wr_job, wr_polls, wr_last, wr_completed>>
    /\ UNCHANGED wrOthers

\* trigger_result = self.refresh(epg_id)
WrTrigger ==
    /\ wr_pc = "trigger"
    /\ \E status_code \in ImportStatusCodes :
          IF RefreshInitiated(status_code)
            THEN /\ wr_job' = "queued"
                 /\ wr_pc' = "poll"
                 /\ wr_result' = wr_result
            ELSE /\ wr_result' = [success |-> FALSE, how |-> "trigger"]
                 /\ wr_pc' = "done"
                 /\ wr_job' = wr_job
    /\ UNCHANGED <<wr_status, wr_updated_at, wr_message, wr_before_updated, wr_polls, wr_last, wr_completed>>
    /\ UNCHANGED wrOthers

\* What one iteration decides on the source it read: a result, or NoValue
\* to go on polling
PollDecision(current, before_updated) ==
    IF current.status = "success" /\ current.updated_at # before_updated
    THEN [success |-> TRUE, how |-> "updated"]
    ELSE IF current.status = "success" /\ MentionsNoChannels(current.message)
    THEN [success |-> TRUE, how |-> "no channels"]
    ELSE IF current.status = "error"
    THEN [success |-> FALSE, how |-> "error"]
    ELSE NoValue

\* one iteration of the while loop: sleep, get_source, the three checks
WrPoll ==
    /\ wr_pc = "poll"
    /\ wr_polls < MaxPolls
    /\ wr_polls' = wr_polls + 1
    /\ \E found \in BOOLEAN :
          IF found
            THEN /\ wr_last' = SourceSeen
                 /\ wr_result' = PollDecision(SourceSeen, wr_before_updated)
                 /\ wr_pc' = IF PollDecision(SourceSeen, wr_before_updated) = NoValue
                             THEN "poll" ELSE "done"
            ELSE UNCHANGED <<wr_last, wr_result, wr_pc>>
    /\ UNCHANGED <<wr_status, wr_updated_at, wr_message, wr_job, wr_before_updated, wr_completed>>
    /\ UNCHANGED wrOthers

\* the loop ran for timeout seconds
WrTimeout ==
    /\ wr_pc = "poll"
    /\ wr_polls = MaxPolls
    /\ wr_result' = IF wr_last # NoValue /\ wr_last.status = "success"
                    THEN [success |-> TRUE, how |-> "timeout"]
                    ELSE [success |-> FALSE, how |-> "timeout"]
    /\ wr_pc' = "done"
    /\ UNCHANGED <<wr_status, wr_updated_at, wr_message, wr_job, wr_before_updated, wr_polls, wr_last, wr_completed>>
    /\ UNCHANGED wrOthers

\* Dispatcharr starts the queued import task
WrTaskStarts ==
    /\ wr_job = "queued"
    /\ wr_job' = "running"
    /\ wr_status' = "fetching"
    /\ UNCHANGED <<wr_updated_at, wr_message, wr_pc, wr_before_updated, wr_polls, wr_last, wr_result, wr_completed>>
    /\ UNCHANGED wrOthers

\* Dispatcharr: no channels are mapped, the task completes at once
WrTaskNoChannels ==
    /\ wr_job = "queued"
    /\ wr_job' = "none"
    /\ wr_status' = "success"
    /\ wr_message' = "No channels mapped"
    /\ wr_completed' = TRUE
    /\ UNCHANGED <<wr_updated_at, wr_pc, wr_before_updated, wr_polls, wr_last, wr_result>>
    /\ UNCHANGED wrOthers

\* Dispatcharr: the task goes from fetching to parsing
WrTaskParses ==
    /\ wr_job = "running"
    /\ wr_status = "fetching"
    /\ wr_status' = "parsing"
    /\ UNCHANGED <<wr_updated_at, wr_message, wr_job, wr_pc, wr_before_updated, wr_polls, wr_last, wr_result, wr_completed>>
    /\ UNCHANGED wrOthers

\* Dispatcharr: the task ends, with success and a new updated_at or with error
WrTaskEnds ==
    /\ wr_job = "running"
    /\ wr_status = "parsing"
    /\ wr_job' = "none"
    /\ \E ok \in BOOLEAN :
          IF ok
            THEN /\ wr_status' = "success"
                 /\ wr_updated_at' = wr_updated_at + 1
                 /\ wr_message' = "Parsed 5 programmes"
                 /\ wr_completed' = TRUE
            ELSE /\ wr_status' = "error"
                 /\ wr_message' = ""
                 /\ UNCHANGED <<wr_updated_at, wr_completed>>
    /\ UNCHANGED <<wr_pc, wr_before_updated, wr_polls, wr_last, wr_result>>
    /\ UNCHANGED wrOthers

WrNext ==
    \/ WrGetBefore
    \/ WrTrigger
    \/ WrPoll
    \/ WrTimeout
    \/ WrTaskStarts
    \/ WrTaskNoChannels
    \/ WrTaskParses
    \/ WrTaskEnds

InitRefreshWait == WrInit /\ OrdParked /\ KwParked /\ NumParked /\ TlParked /\ RlParked /\ SvcParked /\ EpgParked /\ RqParked /\ EoParked /\ RsParked /\ DsParked /\ RgParked /\ ImParked /\ LgParked /\ GzParked /\ FcParked /\ LcParked /\ CpParked /\ RiParked /\ TmParked /\ TsParked /\ RfParked

SpecRefreshWait == InitRefreshWait /\ [][WrNext]_vars

ReportedSuccess == wr_result # NoValue /\ wr_result.success

\* C39: wait_for_refresh reports success only if the refresh it triggered
\* completed: the source was seen with status success after the trigger and
\* either its updated_at differs from the value read before the trigger or
\* its message says no channels are mapped; a success status left over from
\* an earlier refresh is never reported as success.
C39_SuccessOnlyIfCompleted ==
    ReportedSuccess =>
        /\ wr_last # NoValue
        /\ wr_last.status = "success"
        /\ \/ wr_last.updated_at # wr_before_updated
           \/ MentionsNoChannels(wr_last.message)
        /\ wr_completed



(***************************************************************************)
(* trigger_refresh: POST /cache/refresh                                     *)
(*                                                                         *)
(* The handler marks the refresh as started and returns a                  *)
(* StreamingResponse over generate(); the body of generate(), which starts *)
(* the run_refresh thread, runs only when the server iterates the          *)
(* response.  The server stops iterating when the client goes away.  The   *)
(* functions of teamarr.api.cache_refresh_status are modelled by their use *)
(* in the handler: one status, in progress from start_refresh until        *)
(* complete_refresh or fail_refresh.                                       *)
(***************************************************************************)
MaxRefreshes == 2

MaxErrorStreams == 1

MaxProgress == 1

Refreshes == 1..MaxRefreshes

\* is_refresh_in_progress()
IsRefreshInProgress(status) == status \in {"starting", "progress"}

\* The handler: already in progress, start_refresh() refusing, or a
\* StreamingResponse over a new generate()
RfTriggerRefresh ==
    IF IsRefreshInProgress(rf_status)
    THEN /\ rf_errors < MaxErrorStreams
         /\ rf_errors' = rf_errors + 1
         /\ UNCHANGED <<rf_status, rf_gen, rf_thread, rf_queue, rf_last_event, rf_progress, rf_triggers>>
         /\ UNCHANGED rfOthers
    ELSE /\ rf_triggers < MaxRefreshes
         /\ \E started \in BOOLEAN :
               IF started
                 THEN /\ rf_status' = "starting"
                      /\ rf_triggers' = rf_triggers + 1
                      /\ rf_gen' = [rf_gen EXCEPT ![rf_triggers + 1] = "created"]
                      /\ UNCHANGED rf_errors
                 ELSE /\ rf_errors < MaxErrorStreams
                      /\ rf_errors' = rf_errors + 1
                      /\ UNCHANGED <<rf_status, rf_triggers, rf_gen>>
         /\ UNCHANGED <<rf_thread, rf_queue, rf_last_event, rf_progress>>
         /\ UNCHANGED rfOthers

\* generate() up to the loop: refresh_thread.start()
RfStartThread(i) ==
    /\ rf_gen[i] = "created"
    /\ rf_gen' = [rf_gen EXCEPT ![i] = "streaming"]
    /\ rf_thread' = [rf_thread EXCEPT ![i] = "running"]
    /\ UNCHANGED <<rf_status, rf_queue, rf_last_event, rf_progress, rf_triggers, rf_errors>>
    /\ UNCHANGED rfOthers

\* run_refresh: progress_callback
RfProgressCallback(i) ==
    /\ rf_thread[i] = "running"
    /\ rf_progress[i] < MaxProgress
    /\ rf_progress' = [rf_progress EXCEPT ![i] = @ + 1]
    /\ rf_status' = "progress"
    /\ rf_queue' = [rf_queue EXCEPT ![i] = Append(@, "progress")]
    /\ UNCHANGED <<rf_gen, rf_thread, rf_last_event, rf_triggers, rf_errors>>
    /\ UNCHANGED rfOthers

\* run_refresh: svc.refresh returns a success, returns errors, or raises
RfRefreshEnds(i) ==
    /\ rf_thread[i] = "running"
    /\ \E outcome \in {"success", "errors", "raises"} :
          LET marked == IF outcome = "success" THEN "completed" ELSE "failed"
          IN  /\ rf_status' = marked
              /\ rf_queue' = [rf_queue EXCEPT ![i] = Append(@, marked)]
    /\ rf_thread' = [rf_thread EXCEPT ![i] = "marked"]
    /\ UNCHANGED <<rf_gen, rf_last_event, rf_progress, rf_triggers, rf_errors>>
    /\ UNCHANGED rfOthers

\* run_refresh: finally
RfThreadFinally(i) ==
    /\ rf_thread[i] = "marked"
    /\ rf_queue' = [rf_queue EXCEPT ![i] = Append(@, "_done")]
    /\ rf_thread' = [rf_thread EXCEPT ![i] = "done"]
    /\ UNCHANGED <<rf_status, rf_gen, rf_last_event, rf_progress, rf_triggers, rf_errors>>
    /\ UNCHANGED rfOthers

\* one iteration of the streaming loop: an item of the queue, or a
\* heartbeat after half a second without one
RfStreamStep(i) ==
    /\ rf_gen[i] = "streaming"
    /\ IF rf_queue[i] = <<>>
         THEN /\ rf_last_event' = [rf_last_event EXCEPT ![i] = "heartbeat"]
              /\ UNCHANGED <<rf_gen, rf_queue>>
         ELSE /\ rf_queue' = [rf_queue EXCEPT ![i] = Tail(@)]
              /\ IF Head(rf_queue[i]) = "_done"
                   THEN /\ rf_gen' = [rf_gen EXCEPT ![i] = "joining"]
                        /\ UNCHANGED rf_last_event
                   ELSE /\ rf_last_event' = [rf_last_event EXCEPT ![i] = Head(rf_queue[i])]
                        /\ UNCHANGED rf_gen
    /\ UNCHANGED <<rf_status, rf_thread, rf_progress, rf_triggers, rf_errors>>
    /\ UNCHANGED rfOthers

\* after the loop: join, then the final get_refresh_status() event
RfFinalStatus(i) ==
    /\ rf_gen[i] = "joining"
    /\ rf_last_event' = [rf_last_event EXCEPT ![i] = rf_status]
    /\ rf_gen' = [rf_gen EXCEPT ![i] = "finished"]
    /\ UNCHANGED <<rf_status, rf_thread, rf_queue, rf_progress, rf_triggers, rf_errors>>
    /\ UNCHANGED rfOthers

\* The client goes away: the server stops iterating the response
RfClientDisconnects(i) ==
    /\ rf_gen[i] \in {"created", "streaming", "joining"}
    /\ rf_gen' = [rf_gen EXCEPT ![i] = "closed"]
    /\ UNCHANGED <<rf_status, rf_thread, rf_queue, rf_last_event, rf_progress, rf_triggers, rf_errors>>
    /\ UNCHANGED rfOthers

RfInit ==
    /\ rf_status = "idle"
    /\ rf_gen = [i \in Refreshes |-> "none"]
    /\ rf_thread = [i \in Refreshes |-> "none"]
    /\ rf_queue = [i \in Refreshes |-> <<>>]
    /\ rf_last_event = [i \in Refreshes |-> ""]
    /\ rf_progress = [i \in Refreshes |-> 0]
    /\ rf_triggers = 0
    /\ rf_errors = 0

\* The steps of the run_refresh threads
RfThreadStep == \E i \in Refreshes : RfProgressCallback(i) \/ RfRefreshEnds(i) \/ RfThreadFinally(i)

\* The steps of the generators the server is iterating
RfGeneratorStep == \E i \in Refreshes : RfStartThread(i) \/ RfStreamStep(i) \/ RfFinalStatus(i)

RfNext ==
    \/ RfTriggerRefresh
    \/ \E i \in Refreshes : RfStartThread(i)
    \/ \E i \in Refreshes : RfProgressCallback(i)
    \/ \E i \in Refreshes : RfRefreshEnds(i)
    \/ \E i \in Refreshes : RfThreadFinally(i)
    \/ \E i \in Refreshes : RfStreamStep(i)
    \/ \E i \in Refreshes : RfFinalStatus(i)
    \/ \E i \in Refreshes : RfClientDisconnects(i)

InitRefresh == RfInit /\ OrdParked /\ KwParked /\ NumParked /\ TlParked /\ RlParked /\ SvcParked /\ EpgParked /\ RqParked /\ EoParked /\ RsParked /\ DsParked /\ RgParked /\ ImParked /\ LgParked /\ GzParked /\ FcParked /\ LcParked /\ CpParked /\ RiParked /\ TmParked /\ TsParked /\ WrParked

\* A started thread runs on, and a response whose client is connected is
\* iterated; nothing obliges a client to stay or a trigger to come.
SpecRefresh ==
    /\ InitRefresh
    /\ [][RfNext]_vars
    /\ WF_vars(RfThreadStep)
    /\ WF_vars(RfGeneratorStep)

\* C40: every cache refresh started by trigger_refresh eventually leaves the
\* in-progress state, and its SSE stream terminates with a final status
\* event, so that a later trigger is not rejected forever.
C40_RefreshLeavesInProgress ==
    /\ IsRefreshInProgress(rf_status) ~> ~IsRefreshInProgress(rf_status)
    /\ \A i \in Refreshes :
          rf_gen[i] = "streaming" ~>
              \/ rf_gen[i] = "closed"
              \/ rf_gen[i] = "finished" /\ rf_last_event[i] \in {"completed", "failed"}

====
